---------------------------- MODULE Spec2Model ----------------------------
(***************************************************************************)
(* Model of the builder pipeline of sunstflower/modelsee:                  *)
(*   backend/ml_layers/*.py        the layer catalog (descriptors)         *)
(*   backend/ml_model_builder.py   validate / build (two emitters)         *)
(*   backend/ml_converters/*.py    the graph orderer and the converters    *)
(*                                                                         *)
(* Python values are modelled by records [k, n, s, l]:                     *)
(*   k  the runtime kind: "none" "bool" "int" "float" "str" "list" "tuple" *)
(*   n  the number (bool: 0/1, int: the value, float: TWICE the value, so  *)
(*      that 2.5 is n = 5; every float of the model is a multiple of 0.5)  *)
(*   s  the text of a str                                                  *)
(*   l  the elements of a list or a tuple (values again)                   *)
(* A Python call that can raise is modelled by a record with a field       *)
(* "raised"; the exception's type is not kept (the code only ever catches  *)
(* `Exception`).                                                           *)
(***************************************************************************)
EXTENDS Integers, Sequences, FiniteSets, TLC

VARIABLES model_config, last_op, result, _layers, _categories, calls,
          sessions, issued, now, cleanup, active_connections, websockets

vars == <<model_config, last_op, result, _layers, _categories, calls,
          sessions, issued, now, cleanup, active_connections, websockets>>

\* the session manager with its cleanup thread, and the WebSocket side
session_vars == <<sessions, issued, now, cleanup>>
socket_vars == <<active_connections, websockets>>

---------------------------------------------------------------------------
(* Bounds of the model *)

MaxLayers == 2
MaxNodes == 3
MaxConns == 2

---------------------------------------------------------------------------
(* Python values *)

PyNone == [k |-> "none", n |-> 0, s |-> "", l |-> <<>>]
PyBool(b) == [k |-> "bool", n |-> IF b THEN 1 ELSE 0, s |-> "", l |-> <<>>]
PyInt(i) == [k |-> "int", n |-> i, s |-> "", l |-> <<>>]
PyFloat2(h) == [k |-> "float", n |-> h, s |-> "", l |-> <<>>]
PyStr(t) == [k |-> "str", n |-> 0, s |-> t, l |-> <<>>]
PyList(q) == [k |-> "list", n |-> 0, s |-> "", l |-> q]
PyTuple(q) == [k |-> "tuple", n |-> 0, s |-> "", l |-> q]

Ok(v) == [raised |-> FALSE, value |-> v]
Raise == [raised |-> TRUE, value |-> PyNone]

\* isinstance(v, int): bool is a subclass of int
IsInt(v) == v.k \in {"int", "bool"}
\* isinstance(v, (int, float))
IsNum(v) == v.k \in {"int", "bool", "float"}
\* isinstance(v, (list, tuple))
IsSeq(v) == v.k \in {"list", "tuple"}

\* twice the numeric value of a number
Num2(v) == IF v.k = "float" THEN v.n ELSE 2 * v.n

\* the number whose doubled value is h, of kind float when isFloat
MkNum(h, isFloat) == IF isFloat THEN PyFloat2(h) ELSE PyInt(h \div 2)

\* bool(v)
Truthy(v) ==
  CASE v.k = "none" -> FALSE
    [] v.k \in {"bool", "int", "float"} -> v.n # 0
    [] v.k = "str" -> v.s # ""
    [] OTHER -> Len(v.l) > 0

\* a == b for the values of the model (1 == 1.0 == True in Python)
PyEq(a, b) ==
  IF IsNum(a) /\ IsNum(b) THEN Num2(a) = Num2(b)
  ELSE IF a.k = "str" /\ b.k = "str" THEN a.s = b.s
  ELSE IF a.k = b.k THEN a = b
  ELSE FALSE

\* a <= b, a >= b, a > b: TypeError unless both are numbers
PyLe(a, b) == IF IsNum(a) /\ IsNum(b) THEN Ok(PyBool(Num2(a) <= Num2(b))) ELSE Raise
PyGe(a, b) == IF IsNum(a) /\ IsNum(b) THEN Ok(PyBool(Num2(a) >= Num2(b))) ELSE Raise
PyGt(a, b) == IF IsNum(a) /\ IsNum(b) THEN Ok(PyBool(Num2(a) > Num2(b))) ELSE Raise

\* a + b, a - b, a * b on numbers (the dimensions of the model are numbers
\* or None; None raises TypeError)
PyAdd(a, b) ==
  IF IsNum(a) /\ IsNum(b)
  THEN Ok(MkNum(Num2(a) + Num2(b), a.k = "float" \/ b.k = "float")) ELSE Raise
PySub(a, b) ==
  IF IsNum(a) /\ IsNum(b)
  THEN Ok(MkNum(Num2(a) - Num2(b), a.k = "float" \/ b.k = "float")) ELSE Raise
PyMul(a, b) ==
  IF IsNum(a) /\ IsNum(b)
  THEN Ok(MkNum((Num2(a) * Num2(b)) \div 2, a.k = "float" \/ b.k = "float")) ELSE Raise

\* floor(x / y) for integers x, y with y # 0
FloorQuot(x, y) == IF y > 0 THEN x \div y ELSE (0 - x) \div (0 - y)

\* a // b: TypeError unless both are numbers, ZeroDivisionError when b == 0
PyFloorDiv(a, b) ==
  IF ~(IsNum(a) /\ IsNum(b)) THEN Raise
  ELSE IF Num2(b) = 0 THEN Raise
  ELSE Ok(MkNum(2 * FloorQuot(Num2(a), Num2(b)), a.k = "float" \/ b.k = "float"))

\* a % b != 0: TypeError unless both are numbers, ZeroDivisionError when b == 0
PyModNonZero(a, b) ==
  IF ~(IsNum(a) /\ IsNum(b)) THEN Raise
  ELSE IF Num2(b) = 0 THEN Raise
  ELSE LET d == IF Num2(b) > 0 THEN Num2(b) ELSE 0 - Num2(b)
       IN Ok(PyBool((Num2(a) % d) # 0))

\* v[i] for i >= 0: TypeError unless v is a sequence, IndexError out of range
\* (a str is not drawn for an indexed parameter; indexing one either raises
\* here or in the arithmetic that follows in the code)
PyIndex(v, i) ==
  IF IsSeq(v) /\ i + 1 <= Len(v.l) THEN Ok(v.l[i + 1]) ELSE Raise

\* v[-1] of a non-empty sequence
PyLast(v) == v.l[Len(v.l)]

\* v[1:] of a sequence keeps the kind
PyTail(v) == [v EXCEPT !.l = IF Len(v.l) = 0 THEN <<>> ELSE Tail(v.l)]

\* v[:-1] of a sequence keeps the kind
PyInit(v) == [v EXCEPT !.l = IF Len(v.l) = 0 THEN <<>> ELSE SubSeq(v.l, 1, Len(v.l) - 1)]

\* a + b on sequences: list + tuple (or tuple + list) is a TypeError
PyConcat(a, b) ==
  IF IsSeq(a) /\ a.k = b.k THEN Ok([a EXCEPT !.l = a.l \o b.l]) ELSE Raise

\* d.get(key, default)
Get(d, key, default) == IF key \in DOMAIN d THEN d[key] ELSE default

---------------------------------------------------------------------------
(* Layer catalog: LayerRegistry._layers after the imports of ml_layers.    *)
(* The descriptors modelled are those of the types below; every other type *)
(* id is unknown to get_layer.                                             *)

LayerTypes ==
  {"dense", "conv2d", "maxpool2d", "flatten", "lstm", "gru", "multi_head_attention",
   "weight_normalization", "sigmoid", "reshape", "permute", "repeat_vector",
   "cropping2d", "zero_padding2d"}

\* LayerRegistry.get_layer(layer_type) is not None
get_layer(layer_type) == layer_type \in LayerTypes

required_params(layer_type) ==
  CASE layer_type = "dense" -> <<"units">>
    [] layer_type = "conv2d" -> <<"filters", "kernel_size">>
    [] layer_type = "maxpool2d" -> <<"pool_size">>
    [] layer_type = "lstm" -> <<"units">>
    [] layer_type = "gru" -> <<"units">>
    [] layer_type = "multi_head_attention" -> <<"num_heads", "key_dim">>
    [] layer_type = "reshape" -> <<"target_shape">>
    [] layer_type = "permute" -> <<"dims">>
    [] layer_type = "repeat_vector" -> <<"n">>
    [] layer_type = "cropping2d" -> <<"cropping">>
    [] OTHER -> <<>>

optional_params(layer_type) ==
  CASE layer_type = "dense" ->
         {"activation", "use_bias", "kernel_initializer", "bias_initializer",
          "kernel_regularizer", "bias_regularizer", "activity_regularizer"}
    [] layer_type = "conv2d" ->
         {"strides", "padding", "activation", "use_bias", "kernel_initializer",
          "bias_initializer", "dilation_rate"}
    [] layer_type = "maxpool2d" -> {"strides", "padding"}
    [] layer_type \in {"lstm", "gru"} ->
         {"activation", "recurrent_activation", "use_bias", "return_sequences",
          "return_state", "go_backwards", "stateful", "dropout",
          "recurrent_dropout", "bidirectional"}
    [] layer_type = "multi_head_attention" ->
         {"value_dim", "dropout", "use_bias", "output_shape", "attention_axes"}
    [] layer_type = "weight_normalization" -> {"dim"}
    [] layer_type = "cropping2d" -> {"data_format"}
    [] layer_type = "zero_padding2d" -> {"padding", "data_format"}
    [] OTHER -> {}

RangeC(lo, hi) == [type |-> "range", min |-> lo, max |-> hi]
ChoicesC(vs) == [type |-> "choices", values |-> vs]
TypeC(t) == [type |-> "type", value |-> t]
ShapeC(len) == [type |-> "shape", length |-> len]

\* 'length': None, a shape constraint that declares no length
NoLength == -1

param_constraints(layer_type) ==
  CASE layer_type = "dense" ->
         [units |-> RangeC(1, 10000),
          activation |-> ChoicesC({"linear", "relu", "sigmoid", "tanh", "softmax",
                                   "leaky_relu", "elu", "selu"}),
          use_bias |-> TypeC("bool")]
    [] layer_type = "conv2d" ->
         [filters |-> RangeC(1, 2048),
          kernel_size |-> ShapeC(2),
          strides |-> ShapeC(2),
          padding |-> ChoicesC({"valid", "same"}),
          activation |-> ChoicesC({"linear", "relu", "sigmoid", "tanh",
                                   "leaky_relu", "elu"})]
    [] layer_type = "maxpool2d" ->
         [pool_size |-> ShapeC(2), padding |-> ChoicesC({"valid", "same"})]
    [] layer_type = "lstm" ->
         [units |-> RangeC(1, 2048),
          activation |-> ChoicesC({"tanh", "sigmoid", "relu", "linear"}),
          dropout |-> RangeC(0, 1),
          recurrent_dropout |-> RangeC(0, 1)]
    [] layer_type = "gru" ->
         [units |-> RangeC(1, 2048),
          activation |-> ChoicesC({"tanh", "sigmoid", "relu", "linear"}),
          dropout |-> RangeC(0, 1)]
    [] layer_type = "multi_head_attention" ->
         [num_heads |-> RangeC(1, 32), key_dim |-> RangeC(8, 512),
          dropout |-> RangeC(0, 1)]
    [] layer_type = "weight_normalization" -> [dim |-> RangeC(0, 3)]
    [] layer_type = "reshape" -> [target_shape |-> ShapeC(NoLength)]
    [] layer_type = "permute" -> [dims |-> ShapeC(NoLength)]
    [] layer_type = "repeat_vector" -> [n |-> RangeC(1, 1000)]
    [] layer_type = "cropping2d" -> [cropping |-> ShapeC(2)]
    [] layer_type = "zero_padding2d" -> [padding |-> ShapeC(2)]
    [] OTHER -> <<>>

\* the order in which the entries of a parameter dict are visited
ParamOrder ==
  <<"units", "filters", "kernel_size", "pool_size", "strides", "padding",
    "activation", "use_bias", "dropout", "return_sequences", "bidirectional",
    "num_heads", "key_dim", "dim", "target_shape", "dims", "n", "cropping", "bogus">>

\* list(params), in visiting order
Keys(params) == SelectSeq(ParamOrder, LAMBDA p : p \in DOMAIN params)

---------------------------------------------------------------------------
(* Config validator: BaseLayer *)

\* BaseLayer._check_constraint: Ok(True) / Ok(False) / an exception
_check_constraint(value, constraint) ==
  CASE constraint.type = "range" ->
         LET lo == PyGe(value, PyInt(constraint.min))
         IN IF lo.raised THEN Raise
            ELSE IF ~Truthy(lo.value) THEN Ok(PyBool(FALSE))
            ELSE PyLe(value, PyInt(constraint.max))
    [] constraint.type = "choices" ->
         Ok(PyBool(\E c \in constraint.values : PyEq(value, PyStr(c))))
    [] constraint.type = "type" ->
         Ok(PyBool(CASE constraint.value = "bool" -> value.k = "bool"
                     [] constraint.value = "int" -> IsInt(value)
                     [] constraint.value = "float" -> IsNum(value)
                     [] constraint.value = "str" -> value.k = "str"
                     [] constraint.value = "list" -> value.k = "list"
                     [] OTHER -> TRUE))
    [] constraint.type = "shape" ->
         Ok(PyBool(IsSeq(value)
                     /\ (constraint.length = NoLength \/ Len(value.l) = constraint.length)))
    [] OTHER -> Ok(PyBool(TRUE))

\* a message of a layer validator: what is wrong, and with which parameter
Msg(kind, param) == [kind |-> kind, param |-> param]

\* ValidationResult(...) of one layer, or the exception the validator raised
LayerResult(valid, errs, warns) ==
  [raised |-> FALSE, is_valid |-> valid, errors |-> errs, warnings |-> warns,
   suggestions |-> <<>>]

LayerRaise ==
  [raised |-> TRUE, is_valid |-> FALSE, errors |-> <<>>, warnings |-> <<>>,
   suggestions |-> <<>>]

\* [f(q[1]), ..., f(q[n])]
MapSeq(q, f(_)) == [i \in 1..Len(q) |-> f(q[i])]

\* BaseLayer.validate_parameters
validate_parameters(layer_type, params) ==
  LET cons == param_constraints(layer_type)
      req == required_params(layer_type)
      missing == SelectSeq(req, LAMBDA p : p \notin DOMAIN params)
      constrained == SelectSeq(Keys(params), LAMBDA p : p \in DOMAIN cons)
      throws == \E i \in 1..Len(constrained) :
                   _check_constraint(params[constrained[i]], cons[constrained[i]]).raised
      violated == SelectSeq(constrained,
                    LAMBDA p : ~Truthy(_check_constraint(params[p], cons[p]).value))
      known == {req[i] : i \in 1..Len(req)} \cup optional_params(layer_type)
      unknown == SelectSeq(Keys(params), LAMBDA p : p \notin known)
      errors == MapSeq(missing, LAMBDA p : Msg("missing", p))
                  \o MapSeq(violated, LAMBDA p : Msg("constraint", p))
  IN IF throws THEN LayerRaise
     ELSE LayerResult(Len(errors) = 0, errors,
                      MapSeq(unknown, LAMBDA p : Msg("unknown", p)))

---------------------------------------------------------------------------
(* Per-type validators: <Layer>.validate_config *)

\* result.errors.append(msg): the list grows, is_valid stays as computed
AppendError(res, m) == [res EXCEPT !.errors = Append(@, m)]

\* any(k <= 0 for k in q), evaluated left to right
RECURSIVE AnyNonPositive(_)
AnyNonPositive(q) ==
  IF Len(q) = 0 THEN Ok(PyBool(FALSE))
  ELSE LET c == PyLe(Head(q), PyInt(0))
       IN IF c.raised THEN Raise
          ELSE IF Truthy(c.value) THEN Ok(PyBool(TRUE))
          ELSE AnyNonPositive(Tail(q))

\* DenseLayer.validate_config; res is self.validate_parameters(config.parameters)
DenseCheck(params, res) ==
  IF res.raised THEN res
  ELSE IF "units" \in DOMAIN params
          /\ (~IsInt(params["units"]) \/ params["units"].n <= 0)
       THEN AppendError(res, Msg("units_positive_int", "units"))
       ELSE res

DenseValidate(params) == DenseCheck(params, validate_parameters("dense", params))

\* Conv2DLayer.validate_config, once kernel_size is known to have two
\* elements; positive is any(k <= 0 for k in kernel_size)
Conv2DKernelCheck(res, positive) ==
  IF positive.raised THEN LayerRaise
  ELSE IF Truthy(positive.value)
       THEN AppendError(res, Msg("kernel_size_positive", "kernel_size"))
       ELSE res

\* Conv2DLayer.validate_config; res is self.validate_parameters(config.parameters)
Conv2DCheck(params, res) ==
  IF res.raised THEN res
  ELSE IF "kernel_size" \notin DOMAIN params THEN res
  ELSE IF ~IsSeq(params["kernel_size"]) \/ Len(params["kernel_size"].l) # 2
       THEN AppendError(res, Msg("kernel_size_length", "kernel_size"))
       ELSE Conv2DKernelCheck(res, AnyNonPositive(params["kernel_size"].l))

Conv2DValidate(params) == Conv2DCheck(params, validate_parameters("conv2d", params))

\* MultiHeadAttentionLayer.validate_config; res is the result of
\* validate_parameters and m is key_dim % num_heads != 0
MultiHeadAttentionCheck(res, m) ==
  IF res.raised THEN res
  ELSE IF m.raised THEN LayerRaise
  ELSE IF Truthy(m.value) THEN AppendError(res, Msg("key_dim_divisible", "key_dim"))
  ELSE res

MultiHeadAttentionValidate(params) ==
  MultiHeadAttentionCheck(
    validate_parameters("multi_head_attention", params),
    PyModNonZero(Get(params, "key_dim", PyInt(64)), Get(params, "num_heads", PyInt(8))))

\* Cropping2DLayer.validate_config; res is the result of validate_parameters
\* and cropping is params.get('cropping')
Cropping2DCheck(res, cropping) ==
  IF res.raised THEN res
  ELSE IF ~Truthy(cropping) THEN res
  ELSE IF ~IsSeq(cropping) \/ Len(cropping.l) # 2
       THEN AppendError(res, Msg("cropping_length", "cropping"))
  ELSE IF \E i \in 1..Len(cropping.l) : ~(IsInt(cropping.l[i]) \/ IsSeq(cropping.l[i]))
       THEN AppendError(res, Msg("cropping_element", "cropping"))
  ELSE res

Cropping2DValidate(params) ==
  Cropping2DCheck(validate_parameters("cropping2d", params), Get(params, "cropping", PyNone))

\* ReshapeLayer.validate_config and PermuteLayer.validate_config; res is the
\* result of validate_parameters and value is params.get('target_shape') or
\* params.get('dims')
SequenceCheck(res, value, name) ==
  IF res.raised THEN res
  ELSE IF Truthy(value) /\ ~IsSeq(value)
       THEN AppendError(res, Msg("must_be_sequence", name))
       ELSE res

ReshapeValidate(params) ==
  SequenceCheck(validate_parameters("reshape", params),
                Get(params, "target_shape", PyNone), "target_shape")

PermuteValidate(params) ==
  SequenceCheck(validate_parameters("permute", params), Get(params, "dims", PyNone), "dims")

\* layer_impl.validate_config(layer_config)
validate_config(layer_type, params) ==
  CASE layer_type = "dense" -> DenseValidate(params)
    [] layer_type = "conv2d" -> Conv2DValidate(params)
    [] layer_type = "multi_head_attention" -> MultiHeadAttentionValidate(params)
    [] layer_type = "cropping2d" -> Cropping2DValidate(params)
    [] layer_type = "reshape" -> ReshapeValidate(params)
    [] layer_type = "permute" -> PermuteValidate(params)
    [] layer_type \in {"flatten", "sigmoid"} -> LayerResult(TRUE, <<>>, <<>>)
    [] OTHER -> validate_parameters(layer_type, params)

---------------------------------------------------------------------------
(* Shape inference: <Layer>.calculate_output_shape.  A shape is a list or  *)
(* a tuple of dimensions; the result is Ok(shape) or an exception.         *)

\* f(r.value) unless r is an exception
Bind(r, f(_)) == IF r.raised THEN Raise ELSE f(r.value)

\* DenseLayer.calculate_output_shape
DenseShape(input_shape, params) ==
  LET units == Get(params, "units", PyInt(128))
  IN IF Len(input_shape.l) = 1 THEN Ok(PyTuple(<<units>>))
     ELSE PyConcat(PyInit(input_shape), PyTuple(<<units>>))

\* a spatial axis computed without the "+ 1" of "valid" padding
SpatialOut_short(size, kernel, strides, padding, axis) ==
  IF PyEq(padding, PyStr("same"))
  THEN Bind(PyIndex(strides, axis), LAMBDA st : PyFloorDiv(size, st))
  ELSE Bind(PyIndex(kernel, axis), LAMBDA ke :
       Bind(PySub(size, ke), LAMBDA d :
       Bind(PyIndex(strides, axis), LAMBDA st : PyFloorDiv(d, st))))

\* one spatial axis of a convolution or a pooling: axis is 0 or 1
SpatialOut(size, kernel, strides, padding, axis) ==
  IF PyEq(padding, PyStr("same"))
  THEN Bind(PyIndex(strides, axis), LAMBDA st : PyFloorDiv(size, st))
  ELSE Bind(PyIndex(kernel, axis), LAMBDA ke :
       Bind(PySub(size, ke), LAMBDA d :
       Bind(PyIndex(strides, axis), LAMBDA st :
       Bind(PyFloorDiv(d, st), LAMBDA q : PyAdd(q, PyInt(1))))))

\* Conv2DLayer.calculate_output_shape
Conv2DShape(input_shape, params) ==
  LET filters == Get(params, "filters", PyInt(32))
      kernel_size == Get(params, "kernel_size", PyList(<<PyInt(3), PyInt(3)>>))
      strides == Get(params, "strides", PyList(<<PyInt(1), PyInt(1)>>))
      padding == Get(params, "padding", PyStr("valid"))
      d == input_shape.l
  IN IF Len(d) # 4 THEN Raise
     ELSE Bind(SpatialOut(d[2], kernel_size, strides, padding, 0), LAMBDA h :
          Bind(SpatialOut(d[3], kernel_size, strides, padding, 1), LAMBDA w :
          Ok(PyTuple(<<d[1], h, w, filters>>))))

\* MaxPool2DLayer.calculate_output_shape
MaxPool2DShape(input_shape, params) ==
  LET pool_size == Get(params, "pool_size", PyList(<<PyInt(2), PyInt(2)>>))
      strides == Get(params, "strides", pool_size)
      padding == Get(params, "padding", PyStr("valid"))
      d == input_shape.l
  IN IF Len(d) # 4 THEN Raise
     ELSE Bind(SpatialOut(d[2], pool_size, strides, padding, 0), LAMBDA h :
          Bind(SpatialOut(d[3], pool_size, strides, padding, 1), LAMBDA w :
          Ok(PyTuple(<<d[1], h, w, d[4]>>))))

\* flattened_size = 1; for dim in dims: flattened_size *= dim
RECURSIVE Product(_, _)
Product(acc, dims) ==
  IF Len(dims) = 0 THEN Ok(acc)
  ELSE Bind(PyMul(acc, Head(dims)), LAMBDA a : Product(a, Tail(dims)))

\* FlattenLayer.calculate_output_shape
FlattenShape(input_shape, params) ==
  IF Len(input_shape.l) < 2 THEN Ok(input_shape)
  ELSE Bind(Product(PyInt(1), Tail(input_shape.l)), LAMBDA size :
       Ok(PyTuple(<<input_shape.l[1], size>>)))

\* units *= 2: a number is doubled, a sequence or a str is repeated (a list
\* in place, see ParametersAfterShape), None raises TypeError
PyTimes2(v) ==
  CASE IsNum(v) -> PyMul(v, PyInt(2))
    [] IsSeq(v) -> Ok([v EXCEPT !.l = v.l \o v.l])
    [] v.k = "str" -> Ok([v EXCEPT !.s = v.s \o v.s])
    [] OTHER -> Raise

\* LSTMLayer.calculate_output_shape
LSTMShape(input_shape, params) ==
  LET units == Get(params, "units", PyInt(128))
      return_sequences == Get(params, "return_sequences", PyBool(FALSE))
      bidirectional == Get(params, "bidirectional", PyBool(FALSE))
      d == input_shape.l
  IN IF Len(d) # 3 THEN Raise
     ELSE Bind(IF Truthy(bidirectional) THEN PyTimes2(units) ELSE Ok(units),
               LAMBDA u : IF Truthy(return_sequences)
                          THEN Ok(PyTuple(<<d[1], d[2], u>>))
                          ELSE Ok(PyTuple(<<d[1], u>>)))

\* GRULayer.calculate_output_shape
GRUShape(input_shape, params) ==
  LET units == Get(params, "units", PyInt(128))
      return_sequences == Get(params, "return_sequences", PyBool(FALSE))
      bidirectional == Get(params, "bidirectional", PyBool(FALSE))
      d == input_shape.l
  IN IF Len(d) # 3 THEN Raise
     ELSE Bind(IF Truthy(bidirectional) THEN PyTimes2(units) ELSE Ok(units),
               LAMBDA u : IF Truthy(return_sequences)
                          THEN Ok(PyTuple(<<d[1], d[2], u>>))
                          ELSE Ok(PyTuple(<<d[1], u>>)))

\* crop_h / crop_w / pad_h / pad_w: [c, c] for an int c, else the element
PairOf(v, axis) ==
  Bind(PyIndex(v, axis), LAMBDA c : IF IsInt(c) THEN Ok(PyList(<<c, c>>)) ELSE Ok(c))

\* Cropping2DLayer.calculate_output_shape
Cropping2DShape(input_shape, params) ==
  LET zero2 == PyList(<<PyInt(0), PyInt(0)>>)
      cropping == Get(params, "cropping", PyList(<<zero2, zero2>>))
      d == input_shape.l
      Shrink(size, pair) ==
        Bind(PyIndex(pair, 0), LAMBDA a : Bind(PySub(size, a), LAMBDA x :
        Bind(PyIndex(pair, 1), LAMBDA b : PySub(x, b))))
  IN IF Len(d) # 4 THEN Ok(input_shape)
     ELSE Bind(PairOf(cropping, 0), LAMBDA crop_h :
          Bind(PairOf(cropping, 1), LAMBDA crop_w :
          Bind(Shrink(d[2], crop_h), LAMBDA h :
          Bind(Shrink(d[3], crop_w), LAMBDA w :
          Ok(PyTuple(<<d[1], h, w, d[4]>>))))))

\* ZeroPadding2DLayer.calculate_output_shape
ZeroPadding2DShape(input_shape, params) ==
  LET one2 == PyList(<<PyInt(1), PyInt(1)>>)
      padding == Get(params, "padding", PyList(<<one2, one2>>))
      d == input_shape.l
      Grow(size, pair) ==
        Bind(PyIndex(pair, 0), LAMBDA a : Bind(PyAdd(size, a), LAMBDA x :
        Bind(PyIndex(pair, 1), LAMBDA b : PyAdd(x, b))))
  IN IF Len(d) # 4 THEN Ok(input_shape)
     ELSE Bind(PairOf(padding, 0), LAMBDA pad_h :
          Bind(PairOf(padding, 1), LAMBDA pad_w :
          Bind(Grow(d[2], pad_h), LAMBDA h :
          Bind(Grow(d[3], pad_w), LAMBDA w :
          Ok(PyTuple(<<d[1], h, w, d[4]>>))))))

\* v[i] for an integer i of either sign
PyIndexSigned(v, i) ==
  IF i >= 0 THEN PyIndex(v, i)
  ELSE IF IsSeq(v) /\ -i <= Len(v.l) THEN Ok(v.l[Len(v.l) + i + 1]) ELSE Raise

\* the characters of a string; the strings of the requests have at most one
StrChars(str) == IF str = "" THEN <<>> ELSE <<PyStr(str)>>

\* tuple(v): the elements of a sequence or of a string, a TypeError otherwise
PyTupleOf(v) ==
  IF IsSeq(v) THEN Ok(PyTuple(v.l))
  ELSE IF v.k = "str" THEN Ok(PyTuple(StrChars(v.s)))
  ELSE Raise

\* len(v): a TypeError unless v is a sequence or a string
PyLen(v) ==
  IF IsSeq(v) THEN Ok(PyInt(Len(v.l)))
  ELSE IF v.k = "str" THEN Ok(PyInt(Len(StrChars(v.s))))
  ELSE Raise

\* a reshape that returns the target shape alone, without the batch element
ReshapeShape_nobatch(input_shape, params) ==
  LET target_shape == Get(params, "target_shape", PyList(<<>>))
  IN IF ~Truthy(target_shape) THEN Ok(input_shape)
     ELSE Bind(PyIndex(input_shape, 0), LAMBDA batch : PyTupleOf(target_shape))

\* ReshapeLayer.calculate_output_shape
ReshapeShape(input_shape, params) ==
  LET target_shape == Get(params, "target_shape", PyList(<<>>))
  IN IF ~Truthy(target_shape) THEN Ok(input_shape)
     ELSE Bind(PyIndex(input_shape, 0), LAMBDA batch :
          Bind(PyTupleOf(target_shape), LAMBDA rest :
          Ok(PyTuple(<<batch>> \o rest.l))))

\* the loop of PermuteLayer.calculate_output_shape over the dims left
RECURSIVE PermuteLoop(_, _, _)
PermuteLoop(input_shape, dims, new_shape) ==
  IF Len(dims) = 0 THEN Ok(PyTuple(new_shape))
  ELSE LET dim == Head(dims)
       IN IF ~IsInt(dim) THEN Raise
          ELSE Bind(PyIndexSigned(input_shape, dim.n + 1), LAMBDA x :
               PermuteLoop(input_shape, Tail(dims), Append(new_shape, x)))

\* PermuteLayer.calculate_output_shape
PermuteShape(input_shape, params) ==
  LET dims == Get(params, "dims", PyList(<<>>))
  IN IF ~Truthy(dims) THEN Ok(input_shape)
     ELSE Bind(PyLen(dims), LAMBDA n :
          IF n.n # Len(input_shape.l) - 1 THEN Ok(input_shape)
          ELSE Bind(PyIndex(input_shape, 0), LAMBDA batch :
               IF IsSeq(dims) THEN PermuteLoop(input_shape, dims.l, <<batch>>)
               ELSE Raise))

\* RepeatVectorLayer.calculate_output_shape
RepeatVectorShape(input_shape, params) ==
  LET n == Get(params, "n", PyInt(1))
  IN Bind(PyIndex(input_shape, 0), LAMBDA batch :
     Ok(PyTuple(<<batch, n, PyLast(input_shape)>>)))

\* config.parameters after layer_impl.calculate_output_shape(input_shape,
\* config): `units *= 2` of the recurrent layers extends a list in place, and
\* no other statement of a shape rule writes to its arguments
ParametersAfterShape(layer_type, input_shape, params) ==
  IF /\ layer_type \in {"lstm", "gru"}
     /\ Len(input_shape.l) = 3
     /\ Truthy(Get(params, "bidirectional", PyBool(FALSE)))
     /\ "units" \in DOMAIN params
     /\ params["units"].k = "list"
  THEN [params EXCEPT !["units"] = [@ EXCEPT !.l = @ \o @]]
  ELSE params

\* layer_impl.calculate_output_shape(input_shape, layer_config)
calculate_output_shape(layer_type, input_shape, params) ==
  CASE layer_type = "dense" -> DenseShape(input_shape, params)
    [] layer_type = "conv2d" -> Conv2DShape(input_shape, params)
    [] layer_type = "maxpool2d" -> MaxPool2DShape(input_shape, params)
    [] layer_type = "flatten" -> FlattenShape(input_shape, params)
    [] layer_type = "lstm" -> LSTMShape(input_shape, params)
    [] layer_type = "gru" -> GRUShape(input_shape, params)
    [] layer_type = "reshape" -> ReshapeShape(input_shape, params)
    [] layer_type = "permute" -> PermuteShape(input_shape, params)
    [] layer_type = "repeat_vector" -> RepeatVectorShape(input_shape, params)
    [] layer_type = "cropping2d" -> Cropping2DShape(input_shape, params)
    [] layer_type = "zero_padding2d" -> ZeroPadding2DShape(input_shape, params)
    [] OTHER -> Ok(input_shape)

\* `if current_shape: current_shape = layer_impl.calculate_output_shape(...)`:
\* the shape cursor after a layer, left alone when it is None or empty
NextShape(layer_type, input_shape, params) ==
  IF Truthy(input_shape) THEN calculate_output_shape(layer_type, input_shape, params)
  ELSE Ok(input_shape)

---------------------------------------------------------------------------
(* Builder pipeline: ModelBuilder.validate_model_config                    *)
(* A model_config is [layers, input_shape, connections]; a layer_data is a *)
(* record that may lack "type", "parameters" and "id".  input_shape is     *)
(* PyNone when absent.                                                     *)

\* a message of the pipeline: the "第{i+1}层({layer_type}): " prefix and the text
PMsg(index, ltype, m) == [index |-> index, ltype |-> ltype, kind |-> m.kind, param |-> m.param]

\* layer_data.get('parameters', {})
ParametersOf(layer_data) == Get(layer_data, "parameters", <<>>)

\* ValidationResult(...) of validate_model_config, or the exception that left it;
\* final_shape is current_shape at the end of the loop (not returned by the code)
ValidationResult(valid, errs, warns, suggs, shape) ==
  [raised |-> FALSE, is_valid |-> valid, errors |-> errs, warnings |-> warns,
   suggestions |-> suggs, final_shape |-> shape]

ValidationRaise ==
  [raised |-> TRUE, is_valid |-> FALSE, errors |-> <<>>, warnings |-> <<>>,
   suggestions |-> <<>>, final_shape |-> PyNone]

\* the rest of an iteration for a registered type: validation_result is what
\* validate_config returned (or raised), shp what the shape rule returned (or
\* raised, inside the try)
ValidateKnownLayer(acc, layer_type, index, validation_result, shp) ==
  IF validation_result.raised THEN ValidationRaise
  ELSE [raised |-> FALSE, is_valid |-> FALSE,
        errors |->
          (IF ~validation_result.is_valid
           THEN acc.errors \o MapSeq(validation_result.errors,
                                     LAMBDA m : PMsg(index, layer_type, m))
           ELSE acc.errors)
          \o (IF shp.raised THEN <<PMsg(index, layer_type, Msg("shape_error", ""))>>
              ELSE <<>>),
        warnings |-> acc.warnings \o MapSeq(validation_result.warnings,
                                             LAMBDA m : PMsg(index, layer_type, m)),
        suggestions |-> acc.suggestions \o MapSeq(validation_result.suggestions,
                                                   LAMBDA m : PMsg(index, layer_type, m)),
        final_shape |-> IF shp.raised THEN PyNone ELSE shp.value]

\* one iteration of `for i, layer_data in enumerate(layers)`; index is i+1
ValidateLayer(acc, layer_data, index) ==
  IF "type" \notin DOMAIN layer_data
  THEN [acc EXCEPT !.errors = Append(@, PMsg(index, "", Msg("missing_type", "")))]
  ELSE IF ~get_layer(layer_data["type"])
  THEN [acc EXCEPT !.errors =
          Append(@, PMsg(index, layer_data["type"], Msg("unknown_type", "")))]
  ELSE ValidateKnownLayer(
         acc, layer_data["type"], index,
         validate_config(layer_data["type"], ParametersOf(layer_data)),
         NextShape(layer_data["type"], acc.final_shape, ParametersOf(layer_data)))

\* the loop over layers[index..]
RECURSIVE ValidateLoop(_, _, _)
ValidateLoop(acc, layers, index) ==
  IF acc.raised \/ index > Len(layers) THEN acc
  ELSE ValidateLoop(ValidateLayer(acc, layers[index], index), layers, index + 1)

\* the completeness check after the loop and the returned ValidationResult;
\* acc is the state the loop ended in
CheckCompleteness(acc, last_layer_type) ==
  IF acc.raised THEN acc
  ELSE ValidationResult(
         Len(acc.errors) = 0,
         acc.errors,
         IF Len(acc.errors) = 0 /\ ~Truthy(acc.final_shape)
         THEN Append(acc.warnings, PMsg(0, "", Msg("no_output_shape", "")))
         ELSE acc.warnings,
         IF Len(acc.errors) = 0 /\ last_layer_type \notin {"dense", "softmax", "sigmoid"}
         THEN Append(acc.suggestions, PMsg(0, "", Msg("add_output_layer", "")))
         ELSE acc.suggestions,
         acc.final_shape)

\* ModelBuilder.validate_model_config
validate_model_config(cfg) ==
  IF Len(cfg.layers) = 0
  THEN ValidationResult(FALSE, <<PMsg(0, "", Msg("no_layers", ""))>>, <<>>, <<>>, PyNone)
  ELSE CheckCompleteness(
         ValidateLoop(ValidationResult(FALSE, <<>>, <<>>, <<>>, cfg.input_shape),
                      cfg.layers, 1),
         Get(cfg.layers[Len(cfg.layers)], "type", ""))

---------------------------------------------------------------------------
(* Sequential-style emitter: <Layer>.generate_tensorflow_code and          *)
(* ModelBuilder._generate_tensorflow_code.  The text of a layer is kept as *)
(* [call, comment, input_shape]: the constructor it names, whether the     *)
(* text is a "#" comment, and the input_shape=... argument (PyNone: none). *)

TfCode(call, shape) == Ok([call |-> call, comment |-> FALSE, input_shape |-> shape])
TfComment(call) == Ok([call |-> call, comment |-> TRUE, input_shape |-> PyNone])

\* `if is_first_layer and config.input_shape:` str(config.input_shape[1:])
InputShapeArg(input_shape, is_first_layer) ==
  IF is_first_layer /\ Truthy(input_shape) THEN PyTail(input_shape) ELSE PyNone

\* DenseLayer.generate_tensorflow_code: str(config.input_shape), batch included
DenseTf(params, input_shape, is_first_layer) ==
  TfCode("layers.Dense",
         IF is_first_layer /\ Truthy(input_shape) THEN input_shape ELSE PyNone)

\* Conv2DLayer.generate_tensorflow_code
Conv2DTf(params, input_shape, is_first_layer) ==
  TfCode("layers.Conv2D", InputShapeArg(input_shape, is_first_layer))

\* LSTMLayer.generate_tensorflow_code: `if dropout > 0` comes first
LSTMTf(params, input_shape, is_first_layer) ==
  Bind(PyGt(Get(params, "dropout", PyFloat2(0)), PyInt(0)), LAMBDA c :
       TfCode("layers.LSTM", InputShapeArg(input_shape, is_first_layer)))

\* GRULayer.generate_tensorflow_code: `if dropout > 0` comes first
GRUTf(params, input_shape, is_first_layer) ==
  Bind(PyGt(Get(params, "dropout", PyFloat2(0)), PyInt(0)), LAMBDA c :
       TfCode("layers.GRU", InputShapeArg(input_shape, is_first_layer)))

\* MultiHeadAttentionLayer.generate_tensorflow_code
MultiHeadAttentionTf(params, input_shape, is_first_layer) ==
  Bind(PyGt(Get(params, "dropout", PyFloat2(0)), PyInt(0)), LAMBDA c :
       TfCode("layers.MultiHeadAttention", PyNone))

\* generate_tensorflow_code as it would be if a layer without a sequential-style
\* rendering raised instead of returning a comment
generate_tensorflow_code_strict(layer_type, params, input_shape, is_first_layer) ==
  CASE layer_type = "dense" -> DenseTf(params, input_shape, is_first_layer)
    [] layer_type = "conv2d" -> Conv2DTf(params, input_shape, is_first_layer)
    [] layer_type = "lstm" -> LSTMTf(params, input_shape, is_first_layer)
    [] layer_type = "gru" -> GRUTf(params, input_shape, is_first_layer)
    [] layer_type = "multi_head_attention" ->
         MultiHeadAttentionTf(params, input_shape, is_first_layer)
    [] layer_type = "maxpool2d" -> TfCode("layers.MaxPooling2D", PyNone)
    [] layer_type = "flatten" -> TfCode("layers.Flatten", PyNone)
    [] layer_type = "sigmoid" -> TfCode("layers.Activation", PyNone)
    [] layer_type = "reshape" -> TfCode("layers.Reshape", PyNone)
    [] layer_type = "permute" -> TfCode("layers.Permute", PyNone)
    [] layer_type = "repeat_vector" -> TfCode("layers.RepeatVector", PyNone)
    [] layer_type = "cropping2d" -> TfCode("layers.Cropping2D", PyNone)
    [] layer_type = "zero_padding2d" -> TfCode("layers.ZeroPadding2D", PyNone)
    [] OTHER -> Raise

\* layer_impl.generate_tensorflow_code(layer_config, is_first_layer)
generate_tensorflow_code(layer_type, params, input_shape, is_first_layer) ==
  CASE layer_type = "dense" -> DenseTf(params, input_shape, is_first_layer)
    [] layer_type = "conv2d" -> Conv2DTf(params, input_shape, is_first_layer)
    [] layer_type = "lstm" -> LSTMTf(params, input_shape, is_first_layer)
    [] layer_type = "gru" -> GRUTf(params, input_shape, is_first_layer)
    [] layer_type = "multi_head_attention" ->
         MultiHeadAttentionTf(params, input_shape, is_first_layer)
    [] layer_type = "maxpool2d" -> TfCode("layers.MaxPooling2D", PyNone)
    [] layer_type = "flatten" -> TfCode("layers.Flatten", PyNone)
    [] layer_type = "sigmoid" -> TfCode("layers.Activation", PyNone)
    [] layer_type = "reshape" -> TfCode("layers.Reshape", PyNone)
    [] layer_type = "permute" -> TfCode("layers.Permute", PyNone)
    [] layer_type = "repeat_vector" -> TfCode("layers.RepeatVector", PyNone)
    [] layer_type = "cropping2d" -> TfCode("layers.Cropping2D", PyNone)
    [] layer_type = "zero_padding2d" -> TfCode("layers.ZeroPadding2D", PyNone)
    [] layer_type = "weight_normalization" -> TfComment("weight_normalization")
    [] OTHER -> Raise

\* the state of an emitter's loop: the lines so far and the shape cursor
EmitState(shape) ==
  [raised |-> FALSE, statements |-> <<>>, definitions |-> <<>>, forwards |-> <<>>,
   input_shape |-> shape]

EmitRaise ==
  [raised |-> TRUE, statements |-> <<>>, definitions |-> <<>>, forwards |-> <<>>,
   input_shape |-> PyNone]

\* model.add(<code>) is appended and the shape cursor moves on.  A statement
\* records which layer it renders (layer) and the LayerConfig.input_shape the
\* emitter was given for it (given_shape).
TfAppend(acc, index, code, shp) ==
  IF code.raised \/ shp.raised THEN EmitRaise
  ELSE [acc EXCEPT !.statements =
                     Append(@, [layer |-> index, given_shape |-> acc.input_shape,
                                call |-> code.value.call,
                                comment |-> code.value.comment,
                                input_shape |-> code.value.input_shape]),
                   !.input_shape = shp.value]

\* one iteration of the loop of _generate_tensorflow_code; index is i+1
TfEmitLayer(acc, layer_data, index) ==
  IF "type" \notin DOMAIN layer_data THEN EmitRaise
  ELSE TfAppend(acc, index,
                generate_tensorflow_code(layer_data["type"], ParametersOf(layer_data),
                                         acc.input_shape, index = 1),
                NextShape(layer_data["type"], acc.input_shape, ParametersOf(layer_data)))

RECURSIVE TfEmitLoop(_, _, _)
TfEmitLoop(acc, layers, index) ==
  IF acc.raised \/ index > Len(layers) THEN acc
  ELSE TfEmitLoop(TfEmitLayer(acc, layers[index], index), layers, index + 1)

\* ModelBuilder._generate_tensorflow_code
_generate_tensorflow_code(cfg) == TfEmitLoop(EmitState(cfg.input_shape), cfg.layers, 1)

---------------------------------------------------------------------------
(* Object-style emitter: <Layer>.generate_pytorch_code and                 *)
(* ModelBuilder._generate_pytorch_code.  A layer gives a definition and a  *)
(* forward text, each kept as [text, comment, arg, placeholder]: text is   *)
(* "" for the empty string, arg is the size taken from the input shape and *)
(* placeholder tells that the text holds "# 需要根据前一层计算" instead.   *)

PtText(text) == [text |-> text, comment |-> FALSE, arg |-> PyNone, placeholder |-> FALSE]
PtComment(text) == [text |-> text, comment |-> TRUE, arg |-> PyNone, placeholder |-> FALSE]

\* in_features = "# 需要根据前一层计算"; if config.input_shape: in_features = config.input_shape[-1]
PtSized(text, input_shape) ==
  IF Truthy(input_shape)
  THEN [text |-> text, comment |-> FALSE, arg |-> PyLast(input_shape), placeholder |-> FALSE]
  ELSE [text |-> text, comment |-> FALSE, arg |-> PyNone, placeholder |-> TRUE]

PtCode(definition, forward) == Ok([definition |-> definition, forward |-> forward])

\* Conv2DLayer.generate_pytorch_code: kernel_size[0] and strides[0] are read
Conv2DPt(params, input_shape) ==
  LET kernel_size == Get(params, "kernel_size", PyList(<<PyInt(3), PyInt(3)>>))
      strides == Get(params, "strides", PyList(<<PyInt(1), PyInt(1)>>))
  IN Bind(PyIndex(kernel_size, 0), LAMBDA ke : Bind(PyIndex(strides, 0), LAMBDA st :
       PtCode(PtSized("nn.Conv2d", input_shape), PtText("self.conv2d"))))

\* MaxPool2DLayer.generate_pytorch_code
MaxPool2DPt(params, input_shape) ==
  LET pool_size == Get(params, "pool_size", PyList(<<PyInt(2), PyInt(2)>>))
      strides == Get(params, "strides", pool_size)
  IN Bind(PyIndex(pool_size, 0), LAMBDA po : Bind(PyIndex(strides, 0), LAMBDA st :
       PtCode(PtText("nn.MaxPool2d"), PtText("self.maxpool"))))

\* MultiHeadAttentionLayer.generate_pytorch_code: embed_dim = key_dim * num_heads
MultiHeadAttentionPt(params, input_shape) ==
  Bind(PyMul(Get(params, "key_dim", PyInt(64)), Get(params, "num_heads", PyInt(8))),
       LAMBDA embed_dim : PtCode(PtText("nn.MultiheadAttention"), PtText("self.multihead_attn")))

\* the four reads crop_h[0], crop_h[1], crop_w[0], crop_w[1] (pad_h, pad_w)
ReadPairs(v) ==
  Bind(PairOf(v, 0), LAMBDA ph : Bind(PairOf(v, 1), LAMBDA pw :
  Bind(PyIndex(ph, 0), LAMBDA a : Bind(PyIndex(ph, 1), LAMBDA b :
  Bind(PyIndex(pw, 0), LAMBDA c : PyIndex(pw, 1))))))

\* Cropping2DLayer.generate_pytorch_code
Cropping2DPt(params, input_shape) ==
  LET one2 == PyList(<<PyInt(1), PyInt(1)>>)
  IN Bind(ReadPairs(Get(params, "cropping", PyList(<<one2, one2>>))), LAMBDA x :
       PtCode(PtText(""), PtText("x[:, :, h_start:h_end, w_start:w_end]")))

\* ZeroPadding2DLayer.generate_pytorch_code
ZeroPadding2DPt(params, input_shape) ==
  LET one2 == PyList(<<PyInt(1), PyInt(1)>>)
  IN Bind(ReadPairs(Get(params, "padding", PyList(<<one2, one2>>))), LAMBDA x :
       PtCode(PtText(""), PtText("F.pad")))

\* layer_impl.generate_pytorch_code(layer_config, i)
generate_pytorch_code(layer_type, params, input_shape) ==
  CASE layer_type = "dense" -> PtCode(PtSized("nn.Linear", input_shape), PtText("self.dense"))
    [] layer_type = "conv2d" -> Conv2DPt(params, input_shape)
    [] layer_type = "maxpool2d" -> MaxPool2DPt(params, input_shape)
    [] layer_type = "flatten" -> PtCode(PtText(""), PtText("x.view"))
    [] layer_type = "lstm" -> PtCode(PtSized("nn.LSTM", input_shape), PtText("self.lstm"))
    [] layer_type = "gru" -> PtCode(PtSized("nn.GRU", input_shape), PtText("self.gru"))
    [] layer_type = "multi_head_attention" -> MultiHeadAttentionPt(params, input_shape)
    [] layer_type = "weight_normalization" ->
         PtCode(PtComment("weight_norm"), PtComment("weight_norm"))
    [] layer_type = "sigmoid" -> PtCode(PtText(""), PtText("torch.sigmoid"))
    [] layer_type = "reshape" ->
         LET target_shape == Get(params, "target_shape", PyList(<<>>))
         IN IF IsSeq(target_shape) \/ target_shape.k = "str"
            THEN PtCode(PtText(""), PtText("x.view")) ELSE Raise
    [] layer_type = "permute" ->
         LET dims == Get(params, "dims", PyList(<<>>))
         IN IF (IsSeq(dims) /\ \A i \in 1..Len(dims.l) : IsNum(dims.l[i]))
               \/ (dims.k = "str" /\ dims.s = "")
            THEN PtCode(PtText(""), PtText("x.permute")) ELSE Raise
    [] layer_type = "repeat_vector" -> PtCode(PtText(""), PtText("x.unsqueeze"))
    [] layer_type = "cropping2d" -> Cropping2DPt(params, input_shape)
    [] layer_type = "zero_padding2d" -> ZeroPadding2DPt(params, input_shape)
    [] OTHER -> Raise

\* a line of the constructor block or of the evaluation block
PtLine(index, shape, t) ==
  [layer |-> index, given_shape |-> shape, text |-> t.text, comment |-> t.comment,
   arg |-> t.arg, placeholder |-> t.placeholder]

\* the definition and the forward text of a layer are appended, each only if
\* it is not empty, and the shape cursor moves on
PtAppend(acc, index, code, shp) ==
  IF code.raised \/ shp.raised THEN EmitRaise
  ELSE [acc EXCEPT !.definitions =
                     IF code.value.definition.text # ""
                     THEN Append(@, PtLine(index, acc.input_shape, code.value.definition))
                     ELSE @,
                   !.forwards =
                     IF code.value.forward.text # ""
                     THEN Append(@, PtLine(index, acc.input_shape, code.value.forward))
                     ELSE @,
                   !.input_shape = shp.value]

\* PtAppend as it would be if the forward line were appended only together
\* with a definition line
PtAppendPaired(acc, index, code, shp) ==
  IF code.raised \/ shp.raised THEN EmitRaise
  ELSE [acc EXCEPT !.definitions =
                     IF code.value.definition.text # ""
                     THEN Append(@, PtLine(index, acc.input_shape, code.value.definition))
                     ELSE @,
                   !.forwards =
                     IF code.value.definition.text # ""
                     THEN Append(@, PtLine(index, acc.input_shape, code.value.forward))
                     ELSE @,
                   !.input_shape = shp.value]

\* PtEmitLayer with the forward line tied to the definition line
PtEmitLayer_paired(acc, layer_data, index) ==
  IF "type" \notin DOMAIN layer_data THEN EmitRaise
  ELSE PtAppendPaired(
         acc, index,
         generate_pytorch_code(layer_data["type"], ParametersOf(layer_data), acc.input_shape),
         NextShape(layer_data["type"], acc.input_shape, ParametersOf(layer_data)))

\* one iteration of the loop of _generate_pytorch_code; index is i+1
PtEmitLayer(acc, layer_data, index) ==
  IF "type" \notin DOMAIN layer_data THEN EmitRaise
  ELSE PtAppend(
         acc, index,
         generate_pytorch_code(layer_data["type"], ParametersOf(layer_data), acc.input_shape),
         NextShape(layer_data["type"], acc.input_shape, ParametersOf(layer_data)))

RECURSIVE PtEmitLoop(_, _, _)
PtEmitLoop(acc, layers, index) ==
  IF acc.raised \/ index > Len(layers) THEN acc
  ELSE PtEmitLoop(PtEmitLayer(acc, layers[index], index), layers, index + 1)

\* ModelBuilder._generate_pytorch_code
_generate_pytorch_code(cfg) == PtEmitLoop(EmitState(cfg.input_shape), cfg.layers, 1)

---------------------------------------------------------------------------
(* ModelBuilder.build_tensorflow_model / build_pytorch_model               *)
(* emitter_invoked is not part of the returned dict: it records whether    *)
(* the call reached _generate_*_code.                                      *)

NoCode == [statements |-> <<>>, definitions |-> <<>>, forwards |-> <<>>]

\* validate_model_config raised: nothing catches it, the build raises too
BuildRaise ==
  [raised |-> TRUE, success |-> FALSE, errors |-> <<>>, warnings |-> <<>>,
   suggestions |-> <<>>, has_code |-> FALSE, code |-> NoCode, emitter_invoked |-> FALSE]

\* {'success': False, 'errors': validation_result.errors, 'warnings': ...}
BuildInvalid(vr) ==
  [raised |-> FALSE, success |-> FALSE, errors |-> vr.errors, warnings |-> vr.warnings,
   suggestions |-> <<>>, has_code |-> FALSE, code |-> NoCode, emitter_invoked |-> FALSE]

\* except Exception: {'success': False, 'errors': ["代码生成失败: ..."]}
BuildCodegenFailed ==
  [raised |-> FALSE, success |-> FALSE,
   errors |-> <<PMsg(0, "", Msg("codegen_failed", ""))>>, warnings |-> <<>>,
   suggestions |-> <<>>, has_code |-> FALSE, code |-> NoCode, emitter_invoked |-> TRUE]

\* {'success': True, 'code': {...}, 'warnings': ..., 'suggestions': ...}
BuildSuccess(vr, emit) ==
  [raised |-> FALSE, success |-> TRUE, errors |-> <<>>, warnings |-> vr.warnings,
   suggestions |-> vr.suggestions, has_code |-> TRUE,
   code |-> [statements |-> emit.statements, definitions |-> emit.definitions,
             forwards |-> emit.forwards],
   emitter_invoked |-> TRUE]

\* what a build returns: validation_result is what validate_model_config
\* returned (or raised); emit is what the emitter gives, called only after
\* `if not validation_result.is_valid: return ...`
BuildResult(validation_result, emit) ==
  IF validation_result.raised THEN BuildRaise
  ELSE IF ~validation_result.is_valid THEN BuildInvalid(validation_result)
  ELSE IF emit.raised THEN BuildCodegenFailed
  ELSE BuildSuccess(validation_result, emit)

\* BuildResult as it would be without the `if not is_valid` return
BuildResultUngated(validation_result, emit) ==
  IF validation_result.raised THEN BuildRaise
  ELSE IF emit.raised THEN BuildCodegenFailed
  ELSE BuildSuccess(validation_result, emit)

\* build_tensorflow_model without the `if not is_valid` return
build_tensorflow_model_ungated(cfg) ==
  BuildResultUngated(validate_model_config(cfg), _generate_tensorflow_code(cfg))

\* ModelBuilder.build_tensorflow_model
build_tensorflow_model(cfg) ==
  BuildResult(validate_model_config(cfg), _generate_tensorflow_code(cfg))

\* ModelBuilder.build_pytorch_model
build_pytorch_model(cfg) ==
  BuildResult(validate_model_config(cfg), _generate_pytorch_code(cfg))

---------------------------------------------------------------------------
(* Graph orderer and sequential-style converter: TensorFlowConverter.      *)
(* The converter reads the "id" and "type" of each layer and the           *)
(* connections, a set of [source, target] pairs.  HAS_TENSORFLOW is taken  *)
(* to be true (otherwise convert_model_structure raises for every input).  *)

DataSourceTypes == {"useData", "mnist"}

\* connection_map[target], the sources of the connections into target;
\* connections with an empty source or target are skipped
connection_map(connections, target) ==
  {c.source : c \in {d \in connections : d.source # "" /\ d.target # "" /\ d.target = target}}

\* the ids of a list of layers
IdsOf(layers) == {layers[i].id : i \in 1..Len(layers)}

\* a pass that takes every remaining layer as ready, whatever it depends on
ReadyLayers_all(remaining_layers, connections) == remaining_layers

\* ready_layers of one pass of the while loop
ReadyLayers(remaining_layers, connections) ==
  SelectSeq(remaining_layers,
            LAMBDA layer : connection_map(connections, layer.id) \cap IdsOf(remaining_layers) = {})

\* the while loop of _topological_sort; warned tells that logger.warning ran
RECURSIVE SortLoop(_, _, _)
SortLoop(sorted_layers, remaining_layers, connections) ==
  IF Len(remaining_layers) = 0 THEN [sorted |-> sorted_layers, warned |-> FALSE]
  ELSE LET ready_layers == ReadyLayers(remaining_layers, connections)
       IN IF Len(ready_layers) = 0
          THEN [sorted |-> sorted_layers \o remaining_layers, warned |-> TRUE]
          ELSE SortLoop(sorted_layers \o ready_layers,
                        SelectSeq(remaining_layers,
                                  LAMBDA layer : layer.id \notin IdsOf(ready_layers)),
                        connections)

\* _topological_sort as it would be if a pass without progress gave up and
\* returned nothing
_topological_sort_strict(layers, connections) ==
  LET s == SortLoop(<<>>, layers, connections)
  IN IF s.warned THEN [sorted |-> <<>>, warned |-> TRUE] ELSE s

\* TensorFlowConverter._topological_sort
_topological_sort(layers, connections) == SortLoop(<<>>, layers, connections)

\* a filter that keeps the data-source layers in the processing sequence
ProcessingLayers_all(layers) == layers

\* processing_layers of _analyze_model_structure
ProcessingLayers(layers) == SelectSeq(layers, LAMBDA layer : layer.type \notin DataSourceTypes)

\* the model_info dict; s is what _topological_sort returned
ModelInfo(layers, s) ==
  [input_layers |-> SelectSeq(layers, LAMBDA layer : layer.type \in DataSourceTypes),
   processing_layers |-> s.sorted,
   warned |-> s.warned]

\* TensorFlowConverter._analyze_model_structure
_analyze_model_structure(layers, connections) ==
  ModelInfo(layers, _topological_sort(ProcessingLayers(layers), connections))

\* the keys of TensorFlowConverter.supported_layers
supported_layers ==
  {"conv2d", "maxPooling2d", "avgPooling2d", "dense", "dropout", "batchNorm",
   "flatten", "lstm", "gru", "activation", "reshape"}

\* TensorFlowConverter._generate_layer_code: a model.add(...) statement, or
\* the comment "# 不支持的层类型: {layer_type}"
_generate_layer_code(layer) ==
  [id |-> layer.id, type |-> layer.type, comment |-> layer.type \notin supported_layers]

\* TensorFlowConverter._generate_model_definition: one entry per processing layer
_generate_model_definition(model_info) ==
  MapSeq(model_info.processing_layers, _generate_layer_code)

\* the code generated from model_info (its model definition part)
Converted(model_info) ==
  [raised |-> FALSE, processing_layers |-> model_info.processing_layers,
   warned |-> model_info.warned, code |-> _generate_model_definition(model_info)]

\* TensorFlowConverter.convert_model_structure: a layer without "type", or a
\* processing layer without "id", is a KeyError
convert_model_structure(cfg) ==
  IF \E i \in 1..Len(cfg.layers) :
       \/ "type" \notin DOMAIN cfg.layers[i]
       \/ cfg.layers[i].type \notin DataSourceTypes /\ "id" \notin DOMAIN cfg.layers[i]
  THEN [raised |-> TRUE, processing_layers |-> <<>>, warned |-> FALSE, code |-> <<>>]
  ELSE Converted(_analyze_model_structure(cfg.layers, cfg.connections))

---------------------------------------------------------------------------
(* The requests of the model *)

\* layer instances a caller may send to the builder
LayerPool ==
  { [type |-> "dense", parameters |-> [units |-> PyInt(10)]],
    [type |-> "dense", parameters |-> [units |-> PyNone]],
    [type |-> "dense", parameters |-> [units |-> PyFloat2(5)]],
    [type |-> "dense"],
    [type |-> "dense", parameters |-> [units |-> PyInt(3), bogus |-> PyInt(1)]],
    [type |-> "conv2d", parameters |->
       [filters |-> PyInt(8), kernel_size |-> PyList(<<PyInt(3), PyInt(3)>>)]],
    [type |-> "conv2d", parameters |->
       [filters |-> PyInt(8), kernel_size |-> PyList(<<PyInt(0), PyInt(3)>>)]],
    [type |-> "conv2d", parameters |->
       [filters |-> PyInt(8), kernel_size |-> PyList(<<PyInt(3), PyInt(3), PyInt(3)>>)]],
    [type |-> "maxpool2d", parameters |-> [pool_size |-> PyList(<<PyInt(2), PyInt(2)>>)]],
    [type |-> "flatten"],
    [type |-> "lstm", parameters |-> [units |-> PyInt(4)]],
    [type |-> "multi_head_attention", parameters |->
       [num_heads |-> PyInt(2), key_dim |-> PyInt(8)]],
    [type |-> "multi_head_attention", parameters |->
       [num_heads |-> PyInt(0), key_dim |-> PyInt(8)]],
    [type |-> "weight_normalization"],
    [type |-> "sigmoid"],
    [type |-> "cropping2d", parameters |->
       [cropping |-> PyList(<<PyList(<<PyInt(1), PyInt(1)>>), PyList(<<PyInt(1), PyInt(1)>>)>>)]],
    [type |-> "zero_padding2d"],
    [type |-> "zero_padding2d", parameters |->
       [padding |-> PyList(<<PyList(<<PyInt(1)>>), PyList(<<PyInt(1)>>)>>)]],
    [type |-> "not_a_real_layer"],
    [parameters |-> <<>>] }

\* declared input shapes: absent, a JSON list, or a tuple of a Python caller
ShapePool ==
  { PyNone,
    PyList(<<PyNone, PyInt(4)>>),
    PyTuple(<<PyNone, PyInt(4)>>),
    PyTuple(<<PyNone, PyInt(8), PyInt(8), PyInt(3)>>),
    PyTuple(<<PyNone, PyInt(5), PyInt(4)>>) }

\* all sequences over S of length 0..n
RECURSIVE SeqsUpTo(_, _)
SeqsUpTo(S, n) ==
  IF n = 0 THEN {<<>>}
  ELSE LET shorter == SeqsUpTo(S, n - 1)
       IN shorter \cup {Append(q, x) : q \in {r \in shorter : Len(r) = n - 1}, x \in S}

\* model graphs for the builder: any layers, any declared shape, no connections
BuilderConfigs ==
  { [layers |-> ls, input_shape |-> sh, connections |-> {}] :
      ls \in SeqsUpTo(LayerPool, MaxLayers), sh \in ShapePool }

\* instance ids, by declaration position
NodeIds == <<"a", "b", "c", "d", "e">>

\* the layers of a graph: one the converter renders, one neither emitter
\* renders, and a data source
NodePool ==
  { [type |-> "dense", parameters |-> [units |-> PyInt(10)]],
    [type |-> "weight_normalization"],
    [type |-> "mnist"] }

\* give the layer at position i the id NodeIds[i]
WithIds(ls) == [i \in 1..Len(ls) |-> [id |-> NodeIds[i]] @@ ls[i]]

\* the subsets of S with at most n elements
RECURSIVE SubsetsUpTo(_, _)
SubsetsUpTo(S, n) ==
  IF n = 0 THEN {{}}
  ELSE LET smaller == SubsetsUpTo(S, n - 1)
       IN smaller \cup {T \cup {x} : T \in smaller, x \in S}

\* the connections that may be drawn between n declared layers
ConnectionsOver(n) ==
  SubsetsUpTo({ [source |-> NodeIds[i], target |-> NodeIds[j]] : i \in 1..n, j \in 1..n },
              MaxConns)

\* ConnectionSets[n]: the sets of connections a graph of n layers may have
ConnectionSets == [n \in 1..MaxNodes |-> ConnectionsOver(n)]

\* the non-empty layer lists of the graphs given to the orderer
NodeSeqs == SeqsUpTo(NodePool, MaxNodes) \ {<<>>}

\* a model graph for the orderer: identified layers and connections
GraphConfig(ls, cs) ==
  [layers |-> WithIds(ls), input_shape |-> PyTuple(<<PyNone, PyInt(4)>>), connections |-> cs]

---------------------------------------------------------------------------
(* Layer registry: LayerRegistry.  _layers maps a type id to its           *)
(* descriptor, _categories maps a category to the type ids registered      *)
(* under it, and calls is the history of the register calls made so far.   *)

\* a BaseLayer instance: the class it was made from and its category
Descriptor(impl, category) == [impl |-> impl, category |-> category]

\* what dict.get returns for a missing key
NoLayer == [impl |-> "None"]

\* LayerRegistry._layers = {} and LayerRegistry._categories = {}
EmptyRegistry == [_layers |-> <<>>, _categories |-> <<>>]

\* l.append(x) unless x is in l
AppendNew(l, x) == IF \E i \in 1..Len(l) : l[i] = x THEN l ELSE Append(l, x)

\* a registry in which the first registration of a type id wins
register_first_wins(reg, layer_type, layer_class) ==
  IF layer_type \in DOMAIN reg._layers THEN reg
  ELSE [_layers |-> [t \in DOMAIN reg._layers \cup {layer_type} |->
                       IF t = layer_type THEN layer_class ELSE reg._layers[t]],
        _categories |-> reg._categories]

\* LayerRegistry.register(layer_type, layer_class) on the registry reg
register(reg, layer_type, layer_class) ==
  LET category == layer_class.category
      listed == IF category \in DOMAIN reg._categories THEN reg._categories[category]
                ELSE <<>>
  IN [_layers |-> [t \in DOMAIN reg._layers \cup {layer_type} |->
                     IF t = layer_type THEN layer_class ELSE reg._layers[t]],
      _categories |-> [c \in DOMAIN reg._categories \cup {category} |->
                         IF c = category THEN AppendNew(listed, layer_type)
                         ELSE reg._categories[c]]]

\* LayerRegistry.get_layer(layer_type) on the registry reg
registry_get_layer(reg, layer_type) ==
  IF layer_type \in DOMAIN reg._layers THEN reg._layers[layer_type] ELSE NoLayer

\* LayerRegistry.get_layers_by_category(category) on the registry reg: the
\* descriptors found under the type ids listed for the category
get_layers_by_category(reg, category) ==
  LET layer_types == IF category \in DOMAIN reg._categories THEN reg._categories[category]
                     ELSE <<>>
  IN [i \in 1..Len(layer_types) |-> reg._layers[layer_types[i]]]

\* the registry after the register calls of q, made in order on reg
RECURSIVE Registered(_, _)
Registered(reg, q) ==
  IF Len(q) = 0 THEN reg
  ELSE Registered(register(reg, Head(q).layer_type, Head(q).layer_class), Tail(q))

\* register(layer_type, layer_class), as a call
Call(layer_type, layer_class) == [layer_type |-> layer_type, layer_class |-> layer_class]

\* the @register_layer decorators of the modelled types, in import order
ImportCalls ==
  << Call("dense", Descriptor("DenseLayer", "basic")),
     Call("conv2d", Descriptor("Conv2DLayer", "basic")),
     Call("maxpool2d", Descriptor("MaxPool2DLayer", "basic")),
     Call("flatten", Descriptor("FlattenLayer", "basic")),
     Call("lstm", Descriptor("LSTMLayer", "advanced")),
     Call("gru", Descriptor("GRULayer", "advanced")),
     Call("sigmoid", Descriptor("SigmoidLayer", "activation")),
     Call("weight_normalization", Descriptor("WeightNormalizationLayer", "normalization")),
     Call("multi_head_attention", Descriptor("MultiHeadAttentionLayer", "attention")),
     Call("reshape", Descriptor("ReshapeLayer", "custom")),
     Call("permute", Descriptor("PermuteLayer", "custom")),
     Call("repeat_vector", Descriptor("RepeatVectorLayer", "custom")),
     Call("cropping2d", Descriptor("Cropping2DLayer", "custom")),
     Call("zero_padding2d", Descriptor("ZeroPadding2DLayer", "custom")) >>

\* the registry the builder works with: the one left by the imports
ImportedRegistry ==
  /\ calls = ImportCalls
  /\ _layers = Registered(EmptyRegistry, ImportCalls)._layers
  /\ _categories = Registered(EmptyRegistry, ImportCalls)._categories

---------------------------------------------------------------------------
(* The state machine.  Every operation is one synchronous call on the      *)
(* request's model graph; last_op names the call made last and result      *)
(* holds what it returned (or that it raised).                             *)

NoResult == [raised |-> FALSE]

\* MLSessionManager.__init__ and ConnectionManager.__init__: no session, the
\* cleanup thread before its first pass, no connection, no socket opened
Sleeping == [pc |-> "sleep", current_time |-> 0, expired_sessions |-> <<>>]
MaxSockets == 2
Sockets == 1..MaxSockets
NewSocket == [pc |-> "new", session_id |-> "", order |-> 0]
ServicesIdle ==
  /\ sessions = <<>>
  /\ issued = 0
  /\ now = 0
  /\ cleanup = Sleeping
  /\ active_connections = <<>>
  /\ websockets = [w \in Sockets |-> NewSocket]

Init ==
  /\ model_config \in BuilderConfigs
  /\ last_op = "none"
  /\ result = NoResult
  /\ ImportedRegistry
  /\ ServicesIdle

InitGraph ==
  /\ \E ls \in NodeSeqs : \E cs \in ConnectionSets[Len(ls)] :
       model_config = GraphConfig(ls, cs)
  /\ last_op = "none"
  /\ result = NoResult
  /\ ImportedRegistry
  /\ ServicesIdle

\* POST /models/validate: ModelBuilder.validate_model_config
Validate ==
  /\ last_op' = "validate"
  /\ result' = validate_model_config(model_config)
  /\ UNCHANGED <<model_config, _layers, _categories, calls, session_vars, socket_vars>>

\* POST /models/build/tensorflow: ModelBuilder.build_tensorflow_model
BuildTensorflow ==
  /\ last_op' = "build_tensorflow"
  /\ result' = build_tensorflow_model(model_config)
  /\ UNCHANGED <<model_config, _layers, _categories, calls, session_vars, socket_vars>>

\* POST /models/build/pytorch: ModelBuilder.build_pytorch_model
BuildPytorch ==
  /\ last_op' = "build_pytorch"
  /\ result' = build_pytorch_model(model_config)
  /\ UNCHANGED <<model_config, _layers, _categories, calls, session_vars, socket_vars>>

\* TensorFlowConverter.convert_model_structure
ConvertTensorflow ==
  /\ last_op' = "convert_tensorflow"
  /\ result' = convert_model_structure(model_config)
  /\ UNCHANGED <<model_config, _layers, _categories, calls, session_vars, socket_vars>>

Next == Validate \/ BuildTensorflow \/ BuildPytorch

Spec == Init /\ [][Next]_vars

NextGraph == Validate \/ ConvertTensorflow \/ BuildTensorflow

SpecGraph == InitGraph /\ [][NextGraph]_vars

---------------------------------------------------------------------------
(* Properties *)

Builds == {"build_tensorflow", "build_pytorch"}

\* what the validator of the layer at position i reports
LayerReport(i) ==
  LET layer_data == model_config.layers[i]
  IN IF "type" \in DOMAIN layer_data /\ get_layer(layer_data["type"])
     THEN validate_config(layer_data["type"], ParametersOf(layer_data))
     ELSE LayerResult(TRUE, <<>>, <<>>)

\* the lines an emitter produced in a successful build
EmittedLines ==
  LET c == result.code
  IN {c.statements[i] : i \in 1..Len(c.statements)}
       \cup {c.definitions[i] : i \in 1..Len(c.definitions)}
       \cup {c.forwards[i] : i \in 1..Len(c.forwards)}

\* C1: validate never throws: whatever the model graph (null, non-numeric or
\* zero parameter values included), it returns a Validation Result.
C1_ValidateNeverThrows ==
  last_op = "validate" => ~result.raised

\* C2: validate is exhaustive: every error a layer's validator reports is in
\* the returned errors with that layer's 1-based index and type, and is_valid
\* is false whenever some layer reported an error.
C2_ValidateExhaustive ==
  (last_op = "validate" /\ ~result.raised) =>
    \A i \in 1..Len(model_config.layers) :
      LET rep == LayerReport(i)
      IN ~rep.raised =>
           /\ \A k \in 1..Len(rep.errors) :
                \E j \in 1..Len(result.errors) :
                  result.errors[j] = PMsg(i, model_config.layers[i]["type"], rep.errors[k])
           /\ (Len(rep.errors) > 0 => ~result.is_valid)

\* C3: a build that follows a validate of the same graph: if validate reported
\* is_valid = false, the build returns success = false with exactly validate's
\* errors, no code, and the emitter not invoked; the emitter is invoked only
\* if validate reported is_valid = true.
C3_BuildGatedByValidate ==
  [][ (last_op = "validate" /\ last_op' \in Builds) =>
        /\ (~result.raised /\ ~result.is_valid) =>
             /\ ~result'.raised
             /\ result'.success = FALSE
             /\ result'.errors = result.errors
             /\ ~result'.has_code /\ result'.code = NoCode
             /\ ~result'.emitter_invoked
        /\ result'.emitter_invoked => (~result.raised /\ result.is_valid) ]_vars

\* a build refused by validation: validate's errors, the emitter never ran
C3_Witness ==
  /\ last_op \in Builds
  /\ ~result.raised /\ ~result.success /\ ~result.emitter_invoked
  /\ Len(result.errors) > 0
  /\ result.errors = validate_model_config(model_config).errors

\* C4: building sequential-style code and then object-style code from the same
\* graph has the same outcome: success in both or in neither.
C4_BackendsAgree ==
  [][ (last_op = "build_tensorflow" /\ last_op' = "build_pytorch") =>
        (result'.raised = result.raised /\ result'.success = result.success) ]_vars

\* C5: whenever a build succeeds, the graph had a declared input shape and
\* every layer handed to the emitter had a resolved (non-null) input shape.
C5_EmitterShapesResolved ==
  (last_op \in Builds /\ ~result.raised /\ result.success) =>
    /\ Truthy(model_config.input_shape)
    /\ \A line \in EmittedLines : line.given_shape # PyNone

\* C6: in sequential-style emission over a graph with a declared input shape,
\* the first layer's statement carries the input shape, whatever its type, and
\* no later statement carries one.
C6_FirstStatementCarriesInputShape ==
  (last_op = "build_tensorflow" /\ ~result.raised /\ result.success
     /\ Truthy(model_config.input_shape)) =>
    LET st == result.code.statements
    IN /\ st[1].input_shape # PyNone
       /\ \A i \in 2..Len(st) : st[i].input_shape = PyNone

\* the positions of the lines of a block are strictly increasing
InLayerOrder(lines) ==
  \A i, j \in 1..Len(lines) : i < j => lines[i].layer < lines[j].layer

\* C7: for a validated graph of n layers, sequential-style emission has exactly
\* one model.add statement per layer, in layer order; object-style emission has
\* a forward statement for every layer (empty definition or not), and the
\* definitions and the forward statements are both in layer order.
C7_OneStatementPerLayerInOrder ==
  LET n == Len(model_config.layers)
      c == result.code
  IN /\ (last_op = "build_tensorflow" /\ ~result.raised /\ result.success) =>
          /\ Len(c.statements) = n
          /\ \A i \in 1..n : c.statements[i].layer = i
     /\ (last_op = "build_pytorch" /\ ~result.raised /\ result.success) =>
          /\ Len(c.forwards) = n
          /\ \A i \in 1..n : c.forwards[i].layer = i
          /\ InLayerOrder(c.definitions)
          /\ \A i \in 1..Len(c.definitions) : c.definitions[i].layer \in 1..n

\* an object-style build of two layers, one of them without a definition
C7_Witness ==
  /\ last_op = "build_pytorch" /\ ~result.raised /\ result.success
  /\ Len(model_config.layers) = 2
  /\ Len(result.code.forwards) = 2
  /\ Len(result.code.definitions) = 1
  /\ result.code.definitions[1].layer = 2

\* the declared layers that take part in the processing sequence
ProcessingOf(cfg) == SelectSeq(cfg.layers, LAMBDA layer : layer["type"] \notin DataSourceTypes)

\* C8: an unsupported layer/backend combination never aborts emission.  The
\* converter renders every processing layer, a comment for each type it does
\* not support, and does not fail; the sequential-style build of a valid graph
\* succeeds with one statement per layer, a comment exactly for the layers
\* that have no sequential-style rendering.
C8_UnsupportedBecomesComment ==
  /\ last_op = "convert_tensorflow" =>
       /\ ~result.raised
       /\ Len(result.code) = Len(ProcessingOf(model_config))
       /\ \A i \in 1..Len(result.code) :
            result.code[i].comment = (result.code[i].type \notin supported_layers)
  /\ (last_op = "build_tensorflow" /\ ~result.raised /\ result.emitter_invoked) =>
       /\ result.success
       /\ Len(result.code.statements) = Len(model_config.layers)
       /\ \A i \in 1..Len(result.code.statements) :
            result.code.statements[i].comment =
              (model_config.layers[i]["type"] = "weight_normalization")

\* a successful build whose code holds a comment next to a rendered layer
C8_Witness ==
  /\ last_op = "build_tensorflow" /\ ~result.raised /\ result.success
  /\ \E i, j \in 1..Len(result.code.statements) :
       /\ result.code.statements[i].comment
       /\ ~result.code.statements[j].comment

\* the ids of the processing layers
ProcIds(cfg) == {ProcessingOf(cfg)[i].id : i \in 1..Len(ProcessingOf(cfg))}

\* the processing layers no pass can ever order: the largest set of them in
\* which every member has a connection from a member (non-empty exactly when
\* the connections among processing layers form a cycle)
Unorderable(cfg) ==
  UNION {S \in SUBSET ProcIds(cfg) :
           \A x \in S : \E c \in cfg.connections : c.target = x /\ c.source \in S}

\* the position at which the layer with this id is declared
DeclPos(cfg, id) == CHOOSE i \in 1..Len(cfg.layers) : cfg.layers[i].id = id

\* the orderer's part of C9: it does not fail, orders every processing layer
\* once, and puts the layers it could not order last, in declaration order
OrdererFallsBack ==
  last_op = "convert_tensorflow" =>
    LET out == result.processing_layers
        stuck == Unorderable(model_config)
    IN /\ ~result.raised
       /\ Len(out) = Cardinality(ProcIds(model_config))
       /\ {out[i].id : i \in 1..Len(out)} = ProcIds(model_config)
       /\ \A i, j \in 1..Len(out) :
            (i < j /\ out[i].id \in stuck) =>
               /\ out[j].id \in stuck
               /\ DeclPos(model_config, out[i].id) < DeclPos(model_config, out[j].id)

\* the same graph with no connections
WithoutConnections(cfg) == [cfg EXCEPT !.connections = {}]

IsScenarioA(cfg) ==
  /\ cfg.layers = <<[type |-> "dense", parameters |-> [units |-> PyInt(10)]]>>
  /\ IsSeq(cfg.input_shape)
  /\ cfg.input_shape.l = <<PyNone, PyInt(4)>>

\* C10: validating Scenario A returns is_valid = true and the shape propagated
\* out of the layer is [null, 10].
C10_ScenarioA ==
  (last_op = "validate" /\ IsScenarioA(model_config)) =>
    /\ ~result.raised
    /\ result.is_valid
    /\ IsSeq(result.final_shape)
    /\ result.final_shape.l = <<PyNone, PyInt(10)>>

---------------------------------------------------------------------------
(* Validation requests: the graphs given to validate alone.  The layers    *)
(* cover the diagnostics of the per-layer validators (missing, constrained *)
(* and unknown parameters, values that make a validator raise) and the     *)
(* shape rules with a rank precondition; the declared shapes have 0, 2, 3  *)
(* and 4 elements.                                                         *)

ValidateLayerPool ==
  { [type |-> "lstm", parameters |-> [units |-> PyInt(4)]],
    [type |-> "gru", parameters |-> [units |-> PyInt(4)]],
    [type |-> "dense", parameters |-> [units |-> PyInt(10)]],
    [type |-> "dense"],
    [type |-> "dense", parameters |-> [units |-> PyInt(3), bogus |-> PyInt(1)]],
    [type |-> "dense", parameters |-> [units |-> PyFloat2(5)]],
    [type |-> "flatten"],
    [type |-> "flatten", parameters |-> [bogus |-> PyInt(1)]],
    [type |-> "sigmoid"],
    [type |-> "conv2d", parameters |->
       [filters |-> PyInt(8), kernel_size |-> PyList(<<PyInt(3), PyInt(3)>>)]],
    [type |-> "conv2d", parameters |->
       [filters |-> PyInt(8), kernel_size |-> PyList(<<PyInt(3), PyInt(3), PyInt(3)>>)]],
    [type |-> "conv2d", parameters |->
       [filters |-> PyInt(8), kernel_size |-> PyList(<<PyInt(9), PyInt(9)>>)]],
    [type |-> "multi_head_attention", parameters |-> [num_heads |-> PyInt(0)]],
    [type |-> "not_a_real_layer"],
    [parameters |-> <<>>] }

ValidateShapePool ==
  { PyNone,
    PyList(<<>>),
    PyList(<<PyNone, PyInt(4)>>),
    PyTuple(<<PyNone, PyInt(4)>>),
    PyTuple(<<PyNone, PyInt(5), PyInt(4)>>),
    PyTuple(<<PyNone, PyInt(8), PyInt(8), PyInt(3)>>) }

\* the layer lists of the validation requests
ValidateSeqs == SeqsUpTo(ValidateLayerPool, MaxLayers)

InitValidate ==
  /\ \E ls \in ValidateSeqs : \E sh \in ValidateShapePool :
       model_config = [layers |-> ls, input_shape |-> sh, connections |-> {}]
  /\ last_op = "none"
  /\ result = NoResult
  /\ ImportedRegistry
  /\ ServicesIdle

NextValidate == Validate

SpecValidate == InitValidate /\ [][NextValidate]_vars

---------------------------------------------------------------------------
(* Properties of validate *)

\* the state of validate's loop when it reaches the layer at position i
\* (current_shape is its final_shape)
LoopBefore(cfg, i) ==
  ValidateLoop(ValidationResult(FALSE, <<>>, <<>>, <<>>, cfg.input_shape),
               SubSeq(cfg.layers, 1, i - 1), 1)

\* the layers of a graph that are LSTM or GRU layers
IsRecurrent(layer_data) ==
  "type" \in DOMAIN layer_data /\ layer_data["type"] \in {"lstm", "gru"}

\* the returned errors hold the shape error of the layer at position i
HasShapeError(res, cfg, i) ==
  \E j \in 1..Len(res.errors) :
    res.errors[j] = PMsg(i, cfg.layers[i]["type"], Msg("shape_error", ""))

\* C11: a recurrent layer (LSTM or GRU) whose input shape does not have exactly
\* 3 elements yields a rank error and no output shape, and validate returns
\* is_valid = false with an error that carries the layer's index and type.
C11_RecurrentRankError ==
  last_op = "validate" =>
    \A i \in 1..Len(model_config.layers) :
      LET before == LoopBefore(model_config, i)
      IN (IsRecurrent(model_config.layers[i])
            /\ ~before.raised
            /\ IsSeq(before.final_shape) /\ Len(before.final_shape.l) # 3) =>
           /\ calculate_output_shape(model_config.layers[i]["type"], before.final_shape,
                                     ParametersOf(model_config.layers[i])).raised
           /\ ~result.raised
           /\ ~result.is_valid
           /\ HasShapeError(result, model_config, i)

\* the graph without the layer at position i
WithoutLayer(cfg, i) ==
  [cfg EXCEPT !.layers = SubSeq(@, 1, i - 1) \o SubSeq(@, i + 1, Len(@))]

\* the messages about the layers other than the one at position i, numbered
\* as in the graph without that layer
OthersOf(msgs, i) ==
  MapSeq(SelectSeq(msgs, LAMBDA m : m.index # i),
         LAMBDA m : IF m.index > i THEN [m EXCEPT !.index = @ - 1] ELSE m)

\* the state validate's loop ends in
LoopAll(cfg) == LoopBefore(cfg, Len(cfg.layers) + 1)

\* C12: a layer whose type id does not resolve in the catalog makes validate
\* return is_valid = false with an error that carries the layer's 1-based index
\* and the unknown type; the failure is confined to that layer: the other
\* layers (those after it included) get the errors and warnings they get in
\* the graph without it.
C12_UnknownTypeConfined ==
  last_op = "validate" =>
    \A i \in 1..Len(model_config.layers) :
      LET layer_data == model_config.layers[i]
      IN ("type" \in DOMAIN layer_data /\ ~get_layer(layer_data["type"])) =>
           /\ ~result.raised
           /\ ~result.is_valid
           /\ \E j \in 1..Len(result.errors) :
                result.errors[j] = PMsg(i, layer_data["type"], Msg("unknown_type", ""))
           /\ OthersOf(result.errors, i) = LoopAll(WithoutLayer(model_config, i)).errors
           /\ OthersOf(result.warnings, i) = LoopAll(WithoutLayer(model_config, i)).warnings


---------------------------------------------------------------------------
(* One layer at a time: the calls a caller can make on a registered layer  *)
(* descriptor with a LayerConfig.                                          *)

\* parameter maps beyond those of the builder's requests
ExtraLayerPool ==
  { [type |-> "conv2d", parameters |->
       [filters |-> PyNone, kernel_size |-> PyList(<<PyInt(3), PyInt(3), PyInt(3)>>)]],
    [type |-> "conv2d", parameters |->
       [filters |-> PyInt(8), kernel_size |-> PyTuple(<<PyInt(3), PyInt(3), PyInt(3)>>)]],
    [type |-> "conv2d", parameters |-> [filters |-> PyInt(8), kernel_size |-> PyInt(3)]],
    [type |-> "conv2d", parameters |->
       [filters |-> PyInt(8), kernel_size |-> PyList(<<PyInt(3), PyInt(3)>>),
        strides |-> PyList(<<PyInt(1)>>)]],
    [type |-> "maxpool2d", parameters |-> [pool_size |-> PyList(<<PyInt(2)>>)]],
    [type |-> "multi_head_attention", parameters |->
       [num_heads |-> PyInt(2), key_dim |-> PyInt(9)]],
    [type |-> "lstm", parameters |-> [units |-> PyInt(4), bidirectional |-> PyBool(TRUE)]],
    [type |-> "conv2d", parameters |->
       [filters |-> PyInt(8), kernel_size |-> PyList(<<PyInt(3), PyInt(3)>>),
        strides |-> PyList(<<PyInt(2), PyInt(2)>>), padding |-> PyStr("same")]],
    [type |-> "conv2d", parameters |->
       [filters |-> PyInt(4), kernel_size |-> PyTuple(<<PyInt(3), PyInt(2)>>),
        strides |-> PyList(<<PyInt(2), PyInt(3)>>)]],
    [type |-> "conv2d", parameters |->
       [filters |-> PyInt(8), kernel_size |-> PyList(<<PyInt(9), PyInt(9)>>)]],
    [type |-> "maxpool2d", parameters |->
       [pool_size |-> PyList(<<PyInt(2), PyInt(2)>>), padding |-> PyStr("same")]],
    [type |-> "maxpool2d", parameters |->
       [pool_size |-> PyList(<<PyInt(3), PyInt(3)>>), strides |-> PyList(<<PyInt(2), PyInt(2)>>)]],
    [type |-> "reshape", parameters |-> [target_shape |-> PyList(<<PyInt(2), PyInt(2)>>)]],
    [type |-> "reshape", parameters |-> [target_shape |-> PyTuple(<<>>)]],
    [type |-> "reshape", parameters |-> [target_shape |-> PyStr("x")]],
    [type |-> "reshape", parameters |-> [target_shape |-> PyInt(4)]],
    [type |-> "reshape"],
    [type |-> "permute", parameters |-> [dims |-> PyList(<<PyInt(1), PyInt(0)>>)]],
    [type |-> "permute", parameters |-> [dims |-> PyList(<<PyInt(-1)>>)]],
    [type |-> "permute", parameters |-> [dims |-> PyList(<<PyInt(1), PyInt(2), PyInt(0)>>)]],
    [type |-> "permute", parameters |-> [dims |-> PyList(<<PyInt(0), PyInt(5)>>)]],
    [type |-> "permute", parameters |-> [dims |-> PyInt(1)]],
    [type |-> "repeat_vector", parameters |-> [n |-> PyInt(3)]],
    [type |-> "repeat_vector"],
    [type |-> "cropping2d", parameters |->
       [cropping |-> PyList(<<PyList(<<PyInt(5), PyInt(5)>>), PyInt(1)>>)]],
    [type |-> "zero_padding2d", parameters |->
       [padding |-> PyList(<<PyInt(2), PyList(<<PyInt(0), PyInt(1)>>)>>)]],
    [type |-> "lstm", parameters |-> [dropout |-> PyNone]],
    [type |-> "lstm", parameters |->
       [units |-> PyList(<<PyInt(4)>>), bidirectional |-> PyBool(TRUE)]],
    [type |-> "gru", parameters |-> [units |-> PyInt(4), bidirectional |-> PyBool(TRUE)]],
    [type |-> "gru", parameters |-> [bogus |-> PyInt(1)]],
    [type |-> "cropping2d", parameters |-> [cropping |-> PyList(<<PyInt(1)>>)]],
    [type |-> "zero_padding2d", parameters |-> [padding |-> PyInt(1)]],
    [type |-> "sigmoid", parameters |-> [bogus |-> PyInt(1)]] }

\* LayerConfig(layer_type, layer_id, parameters, input_shape) of a registered type
LayerConfigs ==
  { [layer_type |-> l["type"], parameters |-> ParametersOf(l), input_shape |-> sh] :
      l \in {x \in LayerPool \cup ValidateLayerPool \cup ExtraLayerPool :
               "type" \in DOMAIN x /\ get_layer(x["type"])},
      sh \in {x \in ValidateShapePool : IsSeq(x)} }

\* values and constraints handed to _check_constraint
ConstraintValues ==
  { PyNone, PyInt(3), PyStr("same"), PyList(<<>>), PyList(<<PyInt(3), PyInt(3)>>),
    PyTuple(<<PyInt(3), PyInt(3)>>), PyList(<<PyInt(3), PyInt(3), PyInt(3)>>) }

Constraints ==
  { ShapeC(2), ShapeC(3), ShapeC(NoLength), RangeC(1, 10), ChoicesC({"valid", "same"}),
    TypeC("int") }

\* the longest list a units parameter may have grown to when a shape rule
\* is called
MaxUnitsLen == 4

\* len(params['units']) of a list-valued units parameter, else 0
UnitsLen(params) ==
  IF "units" \in DOMAIN params /\ params["units"].k = "list" THEN Len(params["units"].l)
  ELSE 0

InitLayer ==
  /\ model_config \in LayerConfigs
  /\ last_op = "none"
  /\ result = NoResult
  /\ ImportedRegistry
  /\ ServicesIdle

\* layer_impl.validate_config(config)
ValidateConfig ==
  /\ last_op' = "validate_config"
  /\ result' = validate_config(model_config.layer_type, model_config.parameters)
  /\ UNCHANGED <<model_config, _layers, _categories, calls, session_vars, socket_vars>>

\* layer_impl.calculate_output_shape(config.input_shape, config)
CalculateOutputShape ==
  /\ UnitsLen(model_config.parameters) <= MaxUnitsLen
  /\ last_op' = "calculate_output_shape"
  /\ result' = calculate_output_shape(model_config.layer_type, model_config.input_shape,
                                      model_config.parameters)
  /\ model_config' =
       [model_config EXCEPT !.parameters =
          ParametersAfterShape(model_config.layer_type, model_config.input_shape, @)]
  /\ UNCHANGED <<_layers, _categories, calls, session_vars, socket_vars>>

\* layer_impl._check_constraint(value, constraint)
CheckConstraint ==
  /\ last_op' = "_check_constraint"
  /\ \E v \in ConstraintValues : \E c \in Constraints :
       result' = [checked |-> v, constraint |-> c] @@ _check_constraint(v, c)
  /\ UNCHANGED <<model_config, _layers, _categories, calls, session_vars, socket_vars>>

NextLayer == ValidateConfig \/ CalculateOutputShape \/ CheckConstraint

SpecLayer == InitLayer /\ [][NextLayer]_vars

\* the value fits the shape constraint: a sequence of the declared length
FitsShape(value, constraint) ==
  IsSeq(value) /\ (constraint.length = NoLength \/ Len(value.l) = constraint.length)

\* the supplied parameters of a layer type that carry a shape constraint
ShapeParams(layer_type, params) ==
  {p \in DOMAIN params \cap DOMAIN param_constraints(layer_type) :
     param_constraints(layer_type)[p].type = "shape"}

HasError(res, m) == \E j \in 1..Len(res.errors) : res.errors[j] = m

\* C13: a value is accepted by a shape constraint only when it is a sequence
\* of the declared length (of any length when none is declared), a layer
\* validator that reports no constraint error has only fitting values in its
\* shape-constrained parameters, and validating a 2D-convolution layer whose
\* kernel_size has 3 elements returns a result with is_valid = false and a
\* constraint error for kernel_size.
C13_ShapeConstraint ==
  /\ (last_op = "_check_constraint" /\ result.constraint.type = "shape") =>
       /\ ~result.raised
       /\ Truthy(result.value) <=> FitsShape(result.checked, result.constraint)
  /\ last_op = "validate_config" =>
       /\ (~result.raised /\ result.is_valid) =>
            \A p \in ShapeParams(model_config.layer_type, model_config.parameters) :
              FitsShape(model_config.parameters[p],
                        param_constraints(model_config.layer_type)[p])
       /\ (model_config.layer_type = "conv2d"
             /\ "kernel_size" \in DOMAIN model_config.parameters
             /\ IsSeq(model_config.parameters["kernel_size"])
             /\ Len(model_config.parameters["kernel_size"].l) = 3) =>
            /\ ~result.raised
            /\ ~result.is_valid
            /\ HasError(result, Msg("constraint", "kernel_size"))


\* the supplied parameter names that the layer type neither requires nor
\* lists as optional
UnknownParams(layer_type, params) ==
  {p \in DOMAIN params :
     /\ \A i \in 1..Len(required_params(layer_type)) : required_params(layer_type)[i] # p
     /\ p \notin optional_params(layer_type)}

HasWarning(res, m) == \E j \in 1..Len(res.warnings) : res.warnings[j] = m

\* C14: validating a layer of any registered type returns, for each supplied
\* parameter that is neither required nor optional for the type, a warning
\* naming that parameter and no error about it.
C14_UnknownParamWarned ==
  last_op = "validate_config" =>
    \A p \in UnknownParams(model_config.layer_type, model_config.parameters) :
      /\ ~result.raised
      /\ HasWarning(result, Msg("unknown", p))
      /\ \A j \in 1..Len(result.errors) : result.errors[j].param # p


\* the required parameter names of the layer's type that its map lacks
MissingParams(layer_data) ==
  {p \in {required_params(layer_data["type"])[k] :
            k \in 1..Len(required_params(layer_data["type"]))} :
     p \notin DOMAIN ParametersOf(layer_data)}

\* C15: validating a graph in which a layer of a registered type lacks a
\* required parameter returns is_valid = false with a missing-parameter
\* error for that layer and that parameter.
C15_MissingRequired ==
  last_op = "validate" =>
    \A i \in 1..Len(model_config.layers) :
      LET layer_data == model_config.layers[i]
      IN ("type" \in DOMAIN layer_data /\ get_layer(layer_data["type"])) =>
           \A p \in MissingParams(layer_data) :
             /\ ~result.raised
             /\ ~result.is_valid
             /\ \E j \in 1..Len(result.errors) :
                  result.errors[j] = PMsg(i, layer_data["type"], Msg("missing", p))


---------------------------------------------------------------------------
(* The registry on its own: register and get_layer, from the empty         *)
(* registry of the class definition.                                       *)

\* the longest history of register calls explored
MaxCalls == 3

\* type ids a caller registers or looks up; "ghost" is never registered
RegistryTypes == {"dense", "my_layer"}
LookupTypes == RegistryTypes \cup {"ghost"}

\* descriptors a caller registers
Descriptors ==
  { Descriptor(impl, category) : impl \in {"DenseLayer", "MyLayer"},
                                 category \in {"basic", "custom"} }

InitRegistry ==
  /\ model_config = [layers |-> <<>>, input_shape |-> PyNone, connections |-> {}]
  /\ last_op = "none"
  /\ result = NoResult
  /\ calls = <<>>
  /\ _layers = EmptyRegistry._layers
  /\ _categories = EmptyRegistry._categories
  /\ ServicesIdle

\* LayerRegistry.register(layer_type, layer_class)
Register ==
  /\ Len(calls) < MaxCalls
  /\ \E layer_type \in RegistryTypes : \E layer_class \in Descriptors :
       LET after == register([_layers |-> _layers, _categories |-> _categories],
                             layer_type, layer_class)
       IN /\ _layers' = after._layers
          /\ _categories' = after._categories
          /\ calls' = Append(calls, Call(layer_type, layer_class))
          /\ result' = [raised |-> FALSE, layer_type |-> layer_type,
                        warned |-> layer_type \in DOMAIN _layers]
  /\ last_op' = "register"
  /\ UNCHANGED <<model_config, session_vars, socket_vars>>

\* LayerRegistry.get_layer(layer_type)
GetLayer ==
  /\ \E layer_type \in LookupTypes :
       result' = [raised |-> FALSE, layer_type |-> layer_type,
                  value |-> registry_get_layer(
                              [_layers |-> _layers, _categories |-> _categories], layer_type)]
  /\ last_op' = "get_layer"
  /\ UNCHANGED <<model_config, _layers, _categories, calls, session_vars, socket_vars>>

\* categories a caller lists
LookupCategories == {"basic", "custom", "ghost"}

\* LayerRegistry.get_layers_by_category(category)
GetLayersByCategory ==
  /\ \E category \in LookupCategories :
       result' = [raised |-> FALSE, category |-> category,
                  value |-> get_layers_by_category(
                              [_layers |-> _layers, _categories |-> _categories], category)]
  /\ last_op' = "get_layers_by_category"
  /\ UNCHANGED <<model_config, _layers, _categories, calls, session_vars, socket_vars>>

NextRegistry == Register \/ GetLayer \/ GetLayersByCategory

SpecRegistry == InitRegistry /\ [][NextRegistry]_vars

\* the descriptor of the most recent call of q that registers layer_type,
\* NoLayer when no call of q does
RECURSIVE LastRegistered(_, _)
LastRegistered(q, layer_type) ==
  IF Len(q) = 0 THEN NoLayer
  ELSE IF q[Len(q)].layer_type = layer_type THEN q[Len(q)].layer_class
  ELSE LastRegistered(SubSeq(q, 1, Len(q) - 1), layer_type)

\* C16: after any sequence of register calls, none of which fails, get_layer
\* of a type id returns the descriptor of the most recent register call for
\* that id, and nothing for an id that was never registered.
C16_LastWriteWins ==
  /\ \A t \in LookupTypes :
       registry_get_layer([_layers |-> _layers, _categories |-> _categories], t)
         = LastRegistered(calls, t)
  /\ last_op = "get_layer" => result.value = LastRegistered(calls, result.layer_type)
  /\ last_op = "register" =>
       /\ ~result.raised
       /\ calls[Len(calls)].layer_type = result.layer_type
       /\ _layers[result.layer_type] = calls[Len(calls)].layer_class

\* a type id registered twice with different descriptors is looked up and
\* gives the later one, while a never-registered id is still absent
C16_Witness ==
  /\ last_op = "get_layer"
  /\ Len(calls) >= 2
  /\ calls[1].layer_type = result.layer_type
  /\ calls[Len(calls)].layer_type = result.layer_type
  /\ calls[1].layer_class # calls[Len(calls)].layer_class
  /\ result.value = calls[Len(calls)].layer_class
  /\ registry_get_layer([_layers |-> _layers, _categories |-> _categories], "ghost") = NoLayer


---------------------------------------------------------------------------
(* Analysis: ModelBuilder.analyze_model_complexity and its estimator.      *)

\* input_shape[-1] if len(input_shape) > 0 else 0
LastDim(input_shape) == IF Len(input_shape.l) > 0 THEN PyLast(input_shape) ELSE PyInt(0)

\* an estimate that leaves the bias term out
WithoutBias(weights, bias, use_bias) == weights

\* weights + (bias if use_bias else 0), weights being a product that may raise
WithBias(weights, bias, use_bias) ==
  Bind(weights, LAMBDA w : PyAdd(w, IF Truthy(use_bias) THEN bias ELSE PyInt(0)))

\* kernel_size[0] * kernel_size[1] * input_channels * filters
KernelParams(kernel_size, input_channels, filters) ==
  Bind(PyIndex(kernel_size, 0), LAMBDA k0 :
    Bind(PyIndex(kernel_size, 1), LAMBDA k1 :
      Bind(PyMul(k0, k1), LAMBDA kk :
        Bind(PyMul(kk, input_channels), LAMBDA kc : PyMul(kc, filters)))))

\* gates * (input_dim * units + units * units + units)
RecurrentParams(gates, input_dim, units) ==
  Bind(PyMul(input_dim, units), LAMBDA a :
    Bind(PyMul(units, units), LAMBDA b :
      Bind(PyAdd(a, b), LAMBDA ab :
        Bind(PyAdd(ab, units), LAMBDA abu : PyMul(PyInt(gates), abu)))))

\* ModelBuilder._estimate_layer_parameters: Ok(count) or an exception
_estimate_layer_parameters(layer_type, params, input_shape, output_shape) ==
  IF ~Truthy(input_shape) \/ ~Truthy(output_shape) THEN Ok(PyInt(0))
  ELSE CASE layer_type = "dense" ->
              WithBias(PyMul(LastDim(input_shape), Get(params, "units", PyInt(128))),
                       Get(params, "units", PyInt(128)),
                       Get(params, "use_bias", PyBool(TRUE)))
         [] layer_type = "conv2d" ->
              WithBias(KernelParams(Get(params, "kernel_size", PyList(<<PyInt(3), PyInt(3)>>)),
                                    LastDim(input_shape), Get(params, "filters", PyInt(32))),
                       Get(params, "filters", PyInt(32)),
                       Get(params, "use_bias", PyBool(TRUE)))
         [] layer_type = "lstm" ->
              RecurrentParams(4, LastDim(input_shape), Get(params, "units", PyInt(128)))
         [] layer_type = "gru" ->
              RecurrentParams(3, LastDim(input_shape), Get(params, "units", PyInt(128)))
         [] OTHER -> Ok(PyInt(0))

\* what analyze returns: the analysis, a failure with its errors, or the
\* exception that left the call
Analysis(total, shape, details) ==
  [raised |-> FALSE, success |-> TRUE, total_parameters |-> total, output_shape |-> shape,
   layer_details |-> details, errors |-> <<>>]
AnalysisFailure(errs) ==
  [raised |-> FALSE, success |-> FALSE, total_parameters |-> PyInt(0), output_shape |-> PyNone,
   layer_details |-> <<>>, errors |-> errs]
AnalysisRaise ==
  [raised |-> TRUE, success |-> FALSE, total_parameters |-> PyInt(0), output_shape |-> PyNone,
   layer_details |-> <<>>, errors |-> <<>>]

\* the error of the except clause of analyze
AnalysisError == <<[index |-> 0, ltype |-> "", kind |-> "analysis_failed", param |-> ""]>>

\* the loop of analyze over the layers from position index on; any exception
\* ends it in the except clause
RECURSIVE AnalyzeLoop(_, _, _, _, _)
AnalyzeLoop(layers, index, current_shape, total_params, layer_info) ==
  IF index > Len(layers) THEN Analysis(total_params, current_shape, layer_info)
  ELSE LET layer_data == layers[index]
           output_shape == IF Truthy(current_shape)
                           THEN calculate_output_shape(layer_data["type"], current_shape,
                                                       ParametersOf(layer_data))
                           ELSE Ok(PyNone)
           params == IF output_shape.raised THEN Raise
                     ELSE _estimate_layer_parameters(layer_data["type"], ParametersOf(layer_data),
                                                     current_shape, output_shape.value)
           total == IF params.raised THEN Raise ELSE PyAdd(total_params, params.value)
       IN IF "type" \notin DOMAIN layer_data \/ output_shape.raised \/ params.raised
             \/ total.raised
          THEN AnalysisFailure(AnalysisError)
          ELSE AnalyzeLoop(layers, index + 1, output_shape.value, total.value,
                           Append(layer_info,
                                  [layer_type |-> layer_data["type"],
                                   input_shape |-> current_shape,
                                   output_shape |-> output_shape.value,
                                   parameters |-> params.value]))

\* the body of analyze_model_complexity after its call of validate_model_config:
\* the gate on the validation result, then the loop over the graph
AnalyzeAfterValidate(validation_result, cfg) ==
  IF validation_result.raised THEN AnalysisRaise
  ELSE IF ~validation_result.is_valid THEN AnalysisFailure(validation_result.errors)
  ELSE AnalyzeLoop(cfg.layers, 1, cfg.input_shape, PyInt(0), <<>>)

\* ModelBuilder.analyze_model_complexity
analyze_model_complexity(cfg) == AnalyzeAfterValidate(validate_model_config(cfg), cfg)

\* layer instances of the analysis requests
AnalyzeLayerPool ==
  { [type |-> "dense", parameters |-> [units |-> PyInt(10)]],
    [type |-> "dense", parameters |-> [units |-> PyInt(3), use_bias |-> PyBool(FALSE)]],
    [type |-> "dense", parameters |-> [units |-> PyFloat2(5)]],
    [type |-> "dense"],
    [type |-> "dense", parameters |-> [units |-> PyNone]],
    [type |-> "conv2d", parameters |->
       [filters |-> PyInt(8), kernel_size |-> PyList(<<PyInt(3), PyInt(3)>>)]],
    [type |-> "conv2d", parameters |->
       [filters |-> PyInt(4), kernel_size |-> PyTuple(<<PyInt(2), PyInt(3)>>),
        use_bias |-> PyBool(FALSE)]],
    [type |-> "conv2d", parameters |->
       [filters |-> PyInt(8), kernel_size |-> PyList(<<PyInt(0), PyInt(3)>>)]],
    [type |-> "maxpool2d", parameters |-> [pool_size |-> PyList(<<PyInt(2), PyInt(2)>>)]],
    [type |-> "flatten"],
    [type |-> "lstm", parameters |-> [units |-> PyInt(4)]],
    [type |-> "gru", parameters |-> [units |-> PyInt(4)]],
    [type |-> "sigmoid"],
    [type |-> "multi_head_attention", parameters |->
       [num_heads |-> PyInt(2), key_dim |-> PyInt(8)]] }

\* declared input shapes of the analysis requests
AnalyzeShapePool ==
  { PyNone,
    PyList(<<PyNone, PyInt(4)>>),
    PyTuple(<<PyNone>>),
    PyTuple(<<PyNone, PyInt(4)>>),
    PyTuple(<<PyNone, PyInt(5), PyInt(4)>>),
    PyTuple(<<PyNone, PyInt(8), PyInt(8), PyInt(3)>>) }

AnalyzeSeqs == SeqsUpTo(AnalyzeLayerPool, MaxLayers)

InitAnalyze ==
  /\ \E ls \in AnalyzeSeqs : \E sh \in AnalyzeShapePool :
       model_config = [layers |-> ls, input_shape |-> sh, connections |-> {}]
  /\ last_op = "none"
  /\ result = NoResult
  /\ ImportedRegistry
  /\ ServicesIdle

\* POST /models/analyze: ModelBuilder.analyze_model_complexity
Analyze ==
  /\ last_op' = "analyze"
  /\ result' = analyze_model_complexity(model_config)
  /\ UNCHANGED <<model_config, _layers, _categories, calls, session_vars, socket_vars>>

NextAnalyze == Validate \/ Analyze

SpecAnalyze == InitAnalyze /\ [][NextAnalyze]_vars

\* the input shape is resolved: a non-empty sequence whose last dimension
\* (the dense input dimension, the convolution channels) is a number
Resolved(shape) == IsSeq(shape) /\ Len(shape.l) > 0 /\ IsNum(PyLast(shape))

\* twice the closed-form parameter count of a layer of the given type and
\* parameters on a resolved input shape (D2 and U2 are twice D and U)
ClosedForm2(layer_type, params, input_shape) ==
  LET D2 == Num2(PyLast(input_shape))
      biased == "use_bias" \notin DOMAIN params \/ Truthy(params["use_bias"])
  IN CASE layer_type = "dense" ->
            LET U2 == Num2(Get(params, "units", PyInt(128)))
            IN (D2 * U2) \div 2 + (IF biased THEN U2 ELSE 0)
       [] layer_type = "conv2d" ->
            LET F == Get(params, "filters", PyInt(32)).n
                kh == params["kernel_size"].l[1].n
                kw == params["kernel_size"].l[2].n
            IN kh * kw * D2 * F + (IF biased THEN 2 * F ELSE 0)
       [] layer_type = "lstm" ->
            LET U == Get(params, "units", PyInt(128)).n
            IN 4 * (D2 * U + 2 * U * U + 2 * U)
       [] layer_type = "gru" ->
            LET U == Get(params, "units", PyInt(128)).n
            IN 3 * (D2 * U + 2 * U * U + 2 * U)
       [] OTHER -> 0

\* a0 + ... + an of the doubled per-layer estimates
RECURSIVE SumParameters2(_)
SumParameters2(details) ==
  IF Len(details) = 0 THEN 0
  ELSE Num2(Head(details).parameters) + SumParameters2(Tail(details))

C18_ShapePure ==
  [][/\ last_op' = "calculate_output_shape" => model_config' = model_config
     /\ last_op' \in {"validate_config", "_check_constraint"} => model_config' = model_config
     /\ (last_op = "calculate_output_shape" /\ last_op' = "calculate_output_shape") =>
          result' = result]_vars


\* C19: every Validation Result that a layer's validate_config returns has
\* is_valid = true exactly when its errors list is empty.
C19_ValidIffNoErrors ==
  (last_op = "validate_config" /\ ~result.raised) =>
    (result.is_valid <=> Len(result.errors) = 0)


\* the shape rule of layer i is called in validate and raises: the layers
\* before it left a shape to propagate and its own validator returned
ShapeFailsAt(cfg, i) ==
  LET before == LoopBefore(cfg, i)
      layer_data == cfg.layers[i]
  IN /\ ~before.raised
     /\ Truthy(before.final_shape)
     /\ "type" \in DOMAIN layer_data
     /\ get_layer(layer_data["type"])
     /\ ~validate_config(layer_data["type"], ParametersOf(layer_data)).raised
     /\ calculate_output_shape(layer_data["type"], before.final_shape,
                               ParametersOf(layer_data)).raised

\* the positions of the shape errors among the reported errors
ShapeErrorsOf(res) == {j \in 1..Len(res.errors) : res.errors[j].kind = "shape_error"}

\* q starts with the elements of pre
IsPrefix(pre, q) == Len(pre) <= Len(q) /\ SubSeq(q, 1, Len(pre)) = pre

\* every error and warning that the validator of layer j records is in res
DiagnosticsReported(res, cfg, j) ==
  LET layer_data == cfg.layers[j]
      r == validate_config(layer_data["type"], ParametersOf(layer_data))
  IN /\ ~r.raised
     /\ \A e \in 1..Len(r.errors) :
          HasError(res, PMsg(j, layer_data["type"], r.errors[e]))
     /\ \A w \in 1..Len(r.warnings) :
          HasWarning(res, PMsg(j, layer_data["type"], r.warnings[w]))

\* C20: when the shape rule of layer k fails in validate, the call returns
\* with exactly one shape error, the one of layer k, and no final shape;
\* every registered layer after k has the errors and warnings of its
\* validator reported, and the errors and warnings collected before k are
\* kept at the head of the result.
C20_ShapeFailureStopsPropagation ==
  last_op = "validate" =>
    \A k \in 1..Len(model_config.layers) :
      ShapeFailsAt(model_config, k) =>
        /\ ~result.raised
        /\ \A j \in ShapeErrorsOf(result) : result.errors[j].index = k
        /\ Cardinality(ShapeErrorsOf(result)) = 1
        /\ result.final_shape = PyNone
        /\ \A j \in (k + 1)..Len(model_config.layers) :
             ("type" \in DOMAIN model_config.layers[j]
                /\ get_layer(model_config.layers[j]["type"])) =>
               DiagnosticsReported(result, model_config, j)
        /\ IsPrefix(LoopBefore(model_config, k).errors, result.errors)
        /\ IsPrefix(LoopBefore(model_config, k).warnings, result.warnings)


\* the position of the layer with this id in a list of layers
PosOf(layers, id) == CHOOSE i \in 1..Len(layers) : layers[i].id = id

\* the connections between two processing layers
ProcConnections(cfg) ==
  {c \in cfg.connections : c.source \in ProcIds(cfg) /\ c.target \in ProcIds(cfg)}

\* C21: when the connections among the processing layers are acyclic, the
\* orderer returns every processing layer once, no data-source layer, and
\* for each connection between two processing layers the source before the
\* target; a connection from a data-source layer blocks nothing.
C21_DependenciesFirst ==
  (last_op = "convert_tensorflow" /\ Unorderable(model_config) = {}) =>
    LET out == result.processing_layers
    IN /\ ~result.raised
       /\ ~result.warned
       /\ Len(out) = Cardinality(ProcIds(model_config))
       /\ {out[i].id : i \in 1..Len(out)} = ProcIds(model_config)
       /\ \A i \in 1..Len(out) : out[i].type \notin DataSourceTypes
       /\ \A c \in ProcConnections(model_config) :
            PosOf(out, c.source) < PosOf(out, c.target)

\* an acyclic graph ordered against its declaration order, one of whose
\* ordered layers depends on a data-source layer
C21_Witness ==
  /\ last_op = "convert_tensorflow" /\ Unorderable(model_config) = {}
  /\ \E c \in ProcConnections(model_config) :
       DeclPos(model_config, c.source) > DeclPos(model_config, c.target)
  /\ \E c \in model_config.connections :
       /\ c.target \in ProcIds(model_config)
       /\ \E i \in 1..Len(model_config.layers) :
            /\ model_config.layers[i].id = c.source
            /\ model_config.layers[i].type \in DataSourceTypes


\* the number of positions of q that hold x
CountOf(q, x) == Cardinality({i \in 1..Len(q) : q[i] = x})

\* C22: for every list of layers and every set of connections the orderer
\* returns, and what it returns is a permutation of the processing layers
\* it was given: each of them as often as it was given and nothing else;
\* with no connections it is the declaration order.
C22_OrderIsPermutation ==
  last_op = "convert_tensorflow" =>
    LET out == result.processing_layers
        given == ProcessingOf(model_config)
    IN /\ ~result.raised
       /\ Len(out) = Len(given)
       /\ \A i \in 1..Len(given) : CountOf(out, given[i]) = CountOf(given, given[i])
       /\ \A i \in 1..Len(out) : CountOf(given, out[i]) > 0
       /\ model_config.connections = {} => out = given

\* the orderer ran on a graph with a self-referencing connection and
\* returned its processing layers in another order than declared
C22_Witness ==
  /\ last_op = "convert_tensorflow" /\ ~result.raised
  /\ Len(result.processing_layers) >= 2
  /\ result.processing_layers # ProcessingOf(model_config)
  /\ \E c \in model_config.connections : c.source = c.target


---------------------------------------------------------------------------
(* Object-style converter: PyTorchConverter.  HAS_PYTORCH is taken to be   *)
(* true (otherwise convert_model_structure raises for every input).        *)

\* PyTorchConverter._analyze_model_structure: the processing layers are the
\* declared ones without the data sources, as declared; no sort is called
pytorch_analyze_model_structure(layers, connections) ==
  [input_layers |-> SelectSeq(layers, LAMBDA layer : layer.type \in DataSourceTypes),
   processing_layers |-> ProcessingLayers(layers),
   warned |-> FALSE]

\* PyTorchConverter._generate_model_class: one definition (or comment) and
\* one forward line per processing layer, in the order of model_info
pytorch_generate_model_class(model_info) ==
  MapSeq(model_info.processing_layers, _generate_layer_code)

\* PyTorchConverter.convert_model_structure: a layer without "type" is a
\* KeyError
pytorch_convert_model_structure(cfg) ==
  IF \E i \in 1..Len(cfg.layers) : "type" \notin DOMAIN cfg.layers[i]
  THEN [raised |-> TRUE, processing_layers |-> <<>>, warned |-> FALSE, code |-> <<>>]
  ELSE LET model_info == pytorch_analyze_model_structure(cfg.layers, cfg.connections)
       IN [raised |-> FALSE, processing_layers |-> model_info.processing_layers,
           warned |-> FALSE, code |-> pytorch_generate_model_class(model_info)]

\* PyTorchConverter.convert_model_structure(layers, connections)
ConvertPytorch ==
  /\ last_op' = "convert_pytorch"
  /\ result' = pytorch_convert_model_structure(model_config)
  /\ UNCHANGED <<model_config, _layers, _categories, calls, session_vars, socket_vars>>

NextConvert == ConvertTensorflow \/ ConvertPytorch

SpecConvert == InitGraph /\ [][NextConvert]_vars

\* the ids of a list of layers, in order
IdSeq(layers) == [i \in 1..Len(layers) |-> layers[i].id]

\* C23: for the same layers and connections the object-style converter
\* emits the processing layers in the order in which the sequential-style
\* converter emits them, the order given by the orderer.
C23_ConvertersSameOrder ==
  last_op = "convert_pytorch" =>
    /\ ~result.raised
    /\ IdSeq(result.processing_layers)
         = IdSeq(convert_model_structure(model_config).processing_layers)
    /\ [k \in 1..Len(result.code) |-> result.code[k].id]
         = [k \in 1..Len(convert_model_structure(model_config).code) |->
              convert_model_structure(model_config).code[k].id]


\* the window of a convolution or pooling layer, its strides and its padding
WindowOf(cfg) ==
  IF cfg.layer_type = "conv2d"
  THEN Get(cfg.parameters, "kernel_size", PyList(<<PyInt(3), PyInt(3)>>))
  ELSE Get(cfg.parameters, "pool_size", PyList(<<PyInt(2), PyInt(2)>>))
StridesOf(cfg) ==
  IF cfg.layer_type = "conv2d"
  THEN Get(cfg.parameters, "strides", PyList(<<PyInt(1), PyInt(1)>>))
  ELSE Get(cfg.parameters, "strides", WindowOf(cfg))
PaddingOf(cfg) == Get(cfg.parameters, "padding", PyStr("valid"))

\* v is a sequence whose first two elements are integers
TwoInts(v) == IsSeq(v) /\ Len(v.l) >= 2 /\ v.l[1].k = "int" /\ v.l[2].k = "int"

\* a convolution or pooling layer on a 4-element shape with integer sizes,
\* an integer window, positive integer strides and a padding of the two kinds
SpatialCase(cfg) ==
  /\ cfg.layer_type \in {"conv2d", "maxpool2d"}
  /\ Len(cfg.input_shape.l) = 4
  /\ cfg.input_shape.l[2].k = "int" /\ cfg.input_shape.l[3].k = "int"
  /\ TwoInts(WindowOf(cfg))
  /\ TwoInts(StridesOf(cfg))
  /\ StridesOf(cfg).l[1].n > 0 /\ StridesOf(cfg).l[2].n > 0
  /\ PaddingOf(cfg) \in {PyStr("valid"), PyStr("same")}

\* floor((in - kernel) / stride) + 1 for "valid", in // stride for "same"
ExpectedSpatial(cfg, axis) ==
  IF PaddingOf(cfg) = PyStr("same")
  THEN cfg.input_shape.l[axis + 1].n \div StridesOf(cfg).l[axis].n
  ELSE (cfg.input_shape.l[axis + 1].n - WindowOf(cfg).l[axis].n) \div StridesOf(cfg).l[axis].n + 1

\* C24: the shape rule of a 2D convolution or pooling layer on a 4-element
\* input shape returns (batch, h, w, last) where h and w are
\* floor((in - kernel)/stride) + 1 with "valid" padding and in // stride with
\* "same" padding, batch is the input's first element, and last is filters
\* for a convolution and the input channels for a pooling.
C24_SpatialArithmetic ==
  (last_op = "calculate_output_shape" /\ SpatialCase(model_config)) =>
    /\ ~result.raised
    /\ result.value =
         PyTuple(<<model_config.input_shape.l[1],
                   PyInt(ExpectedSpatial(model_config, 1)),
                   PyInt(ExpectedSpatial(model_config, 2)),
                   IF model_config.layer_type = "conv2d"
                   THEN Get(model_config.parameters, "filters", PyInt(32))
                   ELSE model_config.input_shape.l[4]>>)

\* a strided "valid" convolution whose division is not exact, computed
C24_Witness ==
  /\ last_op = "calculate_output_shape" /\ SpatialCase(model_config)
  /\ model_config.layer_type = "conv2d"
  /\ PaddingOf(model_config) = PyStr("valid")
  /\ StridesOf(model_config).l[1].n = 2
  /\ (model_config.input_shape.l[2].n - WindowOf(model_config).l[1].n) % 2 = 1
  /\ ~result.raised


\* every known element of a shape is a positive integer
PositiveDims(shape) ==
  IsSeq(shape) => \A j \in 1..Len(shape.l) :
                    shape.l[j] = PyNone \/ (shape.l[j].k = "int" /\ shape.l[j].n > 0)

\* the shape the validation loop holds after the first i layers of a graph
PropagatedShape(cfg, i) == LoopBefore(cfg, i + 1).final_shape

\* C25: whenever validate returns is_valid = true for a graph with a declared
\* input shape, every known dimension of every propagated shape is a positive
\* integer: a kernel larger than its input never yields a zero or negative
\* dimension in a valid graph.
C25_PositiveDimensions ==
  (/\ last_op = "validate"
   /\ ~result.raised
   /\ result.is_valid
   /\ Truthy(model_config.input_shape)
   /\ PositiveDims(model_config.input_shape)) =>
    \A i \in 1..Len(model_config.layers) :
      PositiveDims(PropagatedShape(model_config, i))


\* the layer types whose shape rule rearranges or resizes the non-batch axes
BatchKeepingTypes == {"reshape", "permute", "repeat_vector", "cropping2d", "zero_padding2d"}

\* C26: for reshape, permute, repeat_vector, cropping2d and zero_padding2d, and
\* for every input shape and parameter map on which the shape rule returns a
\* shape, the first (batch) element of the output shape equals the first
\* element of the input shape.
C26_BatchPreserved ==
  (/\ last_op = "calculate_output_shape"
   /\ model_config.layer_type \in BatchKeepingTypes
   /\ ~result.raised
   /\ Len(model_config.input_shape.l) > 0) =>
    /\ IsSeq(result.value)
    /\ Len(result.value.l) > 0
    /\ result.value.l[1] = model_config.input_shape.l[1]

\* a reshape to a target shape and a permutation that moves the axes, both
\* returning a shape other than the input shape
C26_Witness ==
  /\ last_op = "calculate_output_shape"
  /\ model_config.layer_type \in {"reshape", "permute"}
  /\ ~result.raised
  /\ Len(model_config.input_shape.l) > 1
  /\ result.value.l # model_config.input_shape.l
  /\ result.value.l[1] = model_config.input_shape.l[1]


---------------------------------------------------------------------------
(* The pipeline calls and the caller's graph.  LayerConfig.parameters is   *)
(* the dict of the request itself (layer_data.get('parameters', {})), so a *)
(* write of a shape rule to it is a write to the caller's graph.  Here the *)
(* graph after a call is computed from the statements the call executes.   *)

\* layer_data once calculate_output_shape(input_shape, layer_config) returned
AfterShape(layer_data, input_shape) ==
  IF "parameters" \in DOMAIN layer_data
  THEN [layer_data EXCEPT !.parameters =
          ParametersAfterShape(layer_data["type"], input_shape, @)]
  ELSE layer_data

\* the loop of validate executes the shape step of the layer at position i
\* whatever the validator of the layer says
ShapeStepRuns_unvalidated(cfg, i) ==
  LET before == LoopBefore(cfg, i)
      layer_data == cfg.layers[i]
  IN /\ ~before.raised
     /\ "type" \in DOMAIN layer_data
     /\ get_layer(layer_data["type"])
     /\ Truthy(before.final_shape)

\* the loop of validate executes the shape step of the layer at position i:
\* it got there, the type is registered, validate_config returned and
\* current_shape is set
ShapeStepRuns(cfg, i) ==
  LET before == LoopBefore(cfg, i)
      layer_data == cfg.layers[i]
  IN /\ ~before.raised
     /\ "type" \in DOMAIN layer_data
     /\ get_layer(layer_data["type"])
     /\ ~validate_config(layer_data["type"], ParametersOf(layer_data)).raised
     /\ Truthy(before.final_shape)

\* the caller's graph after validate_model_config(cfg)
GraphAfterValidate(cfg) ==
  [cfg EXCEPT !.layers =
     [i \in 1..Len(cfg.layers) |->
        IF ShapeStepRuns(cfg, i)
        THEN AfterShape(cfg.layers[i], LoopBefore(cfg, i).final_shape)
        ELSE cfg.layers[i]]]

\* the state of the loop of _generate_tensorflow_code / _generate_pytorch_code
\* when it reaches the layer at position i
TfEmitBefore(cfg, i) == TfEmitLoop(EmitState(cfg.input_shape), SubSeq(cfg.layers, 1, i - 1), 1)
PtEmitBefore(cfg, i) == PtEmitLoop(EmitState(cfg.input_shape), SubSeq(cfg.layers, 1, i - 1), 1)

\* the loop of _generate_tensorflow_code executes the shape step of
\* layer_data, reached in the loop state `before`: the layer's code was
\* generated and input_shape is set
TfShapeStepRuns(layer_data, before, first) ==
  /\ ~before.raised
  /\ "type" \in DOMAIN layer_data
  /\ ~generate_tensorflow_code(layer_data["type"], ParametersOf(layer_data),
                               before.input_shape, first).raised
  /\ Truthy(before.input_shape)

\* the layer as the loop of _generate_tensorflow_code leaves it
TfLayerAfter(layer_data, before, first) ==
  IF TfShapeStepRuns(layer_data, before, first)
  THEN AfterShape(layer_data, before.input_shape)
  ELSE layer_data

\* the caller's graph after _generate_tensorflow_code(cfg)
GraphAfterTf(cfg) ==
  [cfg EXCEPT !.layers =
     [i \in 1..Len(cfg.layers) |->
        TfLayerAfter(cfg.layers[i], TfEmitBefore(cfg, i), i = 1)]]

\* the same for the loop of _generate_pytorch_code
PtShapeStepRuns(layer_data, before) ==
  /\ ~before.raised
  /\ "type" \in DOMAIN layer_data
  /\ ~generate_pytorch_code(layer_data["type"], ParametersOf(layer_data),
                            before.input_shape).raised
  /\ Truthy(before.input_shape)

\* the layer as the loop of _generate_pytorch_code leaves it
PtLayerAfter(layer_data, before) ==
  IF PtShapeStepRuns(layer_data, before)
  THEN AfterShape(layer_data, before.input_shape)
  ELSE layer_data

\* the caller's graph after _generate_pytorch_code(cfg)
GraphAfterPt(cfg) ==
  [cfg EXCEPT !.layers =
     [i \in 1..Len(cfg.layers) |-> PtLayerAfter(cfg.layers[i], PtEmitBefore(cfg, i))]]

\* the state of the loop of analyze when it reaches the layer at position i
AnalyzeBefore(cfg, i) ==
  AnalyzeLoop(SubSeq(cfg.layers, 1, i - 1), 1, cfg.input_shape, PyInt(0), <<>>)

\* the loop of analyze executes the shape step of layer_data, its first
\* statement on a layer with a registered type and a set current_shape
AnalyzeShapeStepRuns(layer_data, before) ==
  /\ before.success
  /\ "type" \in DOMAIN layer_data
  /\ get_layer(layer_data["type"])
  /\ Truthy(before.output_shape)

\* the layer as the loop of analyze leaves it
AnalyzeLayerAfter(layer_data, before) ==
  IF AnalyzeShapeStepRuns(layer_data, before)
  THEN AfterShape(layer_data, before.output_shape)
  ELSE layer_data

\* the caller's graph after the loop of analyze_model_complexity(cfg)
GraphAfterAnalyzeLoop(cfg) ==
  [cfg EXCEPT !.layers =
     [i \in 1..Len(cfg.layers) |->
        AnalyzeLayerAfter(cfg.layers[i], AnalyzeBefore(cfg, i))]]

\* validate_model_config returned a valid result: the calls built on it go on
Passed(validation_result) ==
  ~validation_result.raised /\ validation_result.is_valid

\* what each call returns on the graph it is given, run alone
RunAlone(op, cfg) ==
  CASE op = "validate" -> validate_model_config(cfg)
    [] op = "build_tensorflow" -> build_tensorflow_model(cfg)
    [] op = "build_pytorch" -> build_pytorch_model(cfg)
    [] op = "analyze" -> analyze_model_complexity(cfg)

\* layer instances of the pipeline requests: among them the recurrent layers
\* with `bidirectional`, whose shape rule executes `units *= 2`
PipelineLayerPool ==
  { [type |-> "lstm", parameters |-> [units |-> PyInt(4), bidirectional |-> PyBool(TRUE)]],
    [type |-> "lstm", parameters |->
       [units |-> PyList(<<PyInt(4)>>), bidirectional |-> PyBool(TRUE)]],
    [type |-> "gru", parameters |->
       [units |-> PyList(<<PyInt(4)>>), bidirectional |-> PyBool(TRUE)]],
    [type |-> "gru", parameters |-> [units |-> PyInt(4)]],
    [type |-> "dense", parameters |-> [units |-> PyInt(10)]],
    [type |-> "dense"],
    [type |-> "flatten"],
    [type |-> "not_a_real_layer"] }

PipelineShapePool ==
  { PyNone,
    PyTuple(<<PyNone, PyInt(4)>>),
    PyTuple(<<PyNone, PyInt(5), PyInt(4)>>),
    PyList(<<PyNone, PyInt(5), PyInt(4)>>) }

InitPipeline ==
  /\ \E ls \in SeqsUpTo(PipelineLayerPool, MaxLayers) : \E sh \in PipelineShapePool :
       model_config = [layers |-> ls, input_shape |-> sh, connections |-> {}]
  /\ last_op = "none"
  /\ result = NoResult
  /\ ImportedRegistry
  /\ ServicesIdle

\* validate_model_config on the caller's graph, with what it writes to it
PipelineValidate ==
  /\ last_op' = "validate"
  /\ result' = validate_model_config(model_config)
  /\ model_config' = GraphAfterValidate(model_config)
  /\ UNCHANGED <<_layers, _categories, calls, session_vars, socket_vars>>

\* build_tensorflow_model: validate, then the emitter on the graph validate left
PipelineBuildTensorflow ==
  \E validation_result \in {validate_model_config(model_config)} :
  \E validated \in {GraphAfterValidate(model_config)} :
     /\ last_op' = "build_tensorflow"
     /\ result' = BuildResult(validation_result, _generate_tensorflow_code(validated))
     /\ model_config' = IF Passed(validation_result) THEN GraphAfterTf(validated)
                        ELSE validated
     /\ UNCHANGED <<_layers, _categories, calls, session_vars, socket_vars>>

\* build_pytorch_model
PipelineBuildPytorch ==
  \E validation_result \in {validate_model_config(model_config)} :
  \E validated \in {GraphAfterValidate(model_config)} :
     /\ last_op' = "build_pytorch"
     /\ result' = BuildResult(validation_result, _generate_pytorch_code(validated))
     /\ model_config' = IF Passed(validation_result) THEN GraphAfterPt(validated)
                        ELSE validated
     /\ UNCHANGED <<_layers, _categories, calls, session_vars, socket_vars>>

\* analyze_model_complexity: validate, then the loop on the graph validate left
PipelineAnalyze ==
  \E validation_result \in {validate_model_config(model_config)} :
  \E validated \in {GraphAfterValidate(model_config)} :
     /\ last_op' = "analyze"
     /\ result' = AnalyzeAfterValidate(validation_result, validated)
     /\ model_config' = IF Passed(validation_result) THEN GraphAfterAnalyzeLoop(validated)
                        ELSE validated
     /\ UNCHANGED <<_layers, _categories, calls, session_vars, socket_vars>>

NextPipeline ==
  PipelineValidate \/ PipelineBuildTensorflow \/ PipelineBuildPytorch \/ PipelineAnalyze

SpecPipeline == InitPipeline /\ [][NextPipeline]_vars

PipelineOps == {"validate", "build_tensorflow", "build_pytorch", "analyze"}

TypesOfCategory(category) == {t \in DOMAIN _layers : _layers[t].category = category}

\* C28: after any sequence of register calls the category index agrees with
\* the Catalog: list_by_category(c) returns exactly the currently registered
\* descriptors whose category is c, each once, also after a type id is
\* registered again under a different category.
C28_CategoryIndexAgrees ==
  last_op = "get_layers_by_category" =>
    /\ \A i \in 1..Len(result.value) : result.value[i].category = result.category
    /\ Len(result.value) = Cardinality(TypesOfCategory(result.category))
    /\ {result.value[i] : i \in 1..Len(result.value)} =
         {_layers[t] : t \in TypesOfCategory(result.category)}


---------------------------------------------------------------------------
(* MLSessionManager.  sessions is the dict of the manager in insertion      *)
(* order, each entry with the session's last_accessed; now is the clock    *)
(* datetime.now() reads, in ticks; issued counts the uuids drawn.  Every   *)
(* `with self._lock:` block is one step.  cleanup holds the position and   *)
(* the locals of the background thread inside cleanup_expired_sessions.    *)

MaxSessions == 2
MaxTime == 3

\* self.session_timeout, in ticks
session_timeout == 1

\* str(uuid.uuid4()): a fresh id at every call
SessionIds == <<"s1", "s2", "s3", "s4">>

\* ids a caller may ask for
KnownIds == {SessionIds[n] : n \in 1..MaxSessions}

\* session_id in self.sessions
HasSession(q, session_id) == \E n \in 1..Len(q) : q[n].session_id = session_id

\* self.sessions[session_id]
SessionOf(q, session_id) == q[CHOOSE n \in 1..Len(q) : q[n].session_id = session_id]

\* MLSessionManager.delete_session on the dict q: the dict it leaves
delete_session(q, session_id) == SelectSeq(q, LAMBDA e : e.session_id # session_id)

InitSessions ==
  /\ model_config = [layers |-> <<>>, input_shape |-> PyNone, connections |-> {}]
  /\ last_op = "none"
  /\ result = NoResult
  /\ ImportedRegistry
  /\ ServicesIdle

\* time passes
Tick ==
  /\ now < MaxTime
  /\ now' = now + 1
  /\ UNCHANGED <<model_config, last_op, result, _layers, _categories, calls,
                 sessions, issued, cleanup, socket_vars>>

\* MLSessionManager.create_session
CreateSession ==
  /\ issued < MaxSessions
  /\ issued' = issued + 1
  /\ sessions' = Append(sessions, [session_id |-> SessionIds[issued + 1], last_accessed |-> now])
  /\ last_op' = "create_session"
  /\ result' = [raised |-> FALSE, session_id |-> SessionIds[issued + 1]]
  /\ UNCHANGED <<model_config, _layers, _categories, calls, now, cleanup, socket_vars>>

\* MLSessionManager.get_session(session_id)
GetSession ==
  /\ \E session_id \in KnownIds :
       /\ sessions' = [n \in 1..Len(sessions) |->
                         IF sessions[n].session_id = session_id
                         THEN [sessions[n] EXCEPT !.last_accessed = now]
                         ELSE sessions[n]]
       /\ result' = [raised |-> FALSE, session_id |-> session_id,
                     found |-> HasSession(sessions, session_id)]
  /\ last_op' = "get_session"
  /\ UNCHANGED <<model_config, _layers, _categories, calls, issued, now, cleanup, socket_vars>>

\* MLSessionManager.delete_session(session_id), called by a client
DeleteSession ==
  /\ \E session_id \in KnownIds :
       /\ sessions' = delete_session(sessions, session_id)
       /\ result' = [raised |-> FALSE, session_id |-> session_id,
                     removed |-> HasSession(sessions, session_id)]
  /\ last_op' = "delete_session"
  /\ UNCHANGED <<model_config, _layers, _categories, calls, issued, now, cleanup, socket_vars>>

\* cleanup_expired_sessions, first statement: current_time = datetime.now()
CleanupStart ==
  /\ cleanup.pc = "sleep"
  /\ cleanup' = [pc |-> "scan", current_time |-> now, expired_sessions |-> <<>>]
  /\ UNCHANGED <<model_config, last_op, result, _layers, _categories, calls,
                 sessions, issued, now, socket_vars>>

\* cleanup_expired_sessions, the scan under the lock
CleanupScan ==
  /\ cleanup.pc = "scan"
  /\ cleanup' = [cleanup EXCEPT
                   !.pc = "delete",
                   !.expired_sessions =
                      LET expired == SelectSeq(sessions,
                                       LAMBDA e : cleanup.current_time - e.last_accessed
                                                    > session_timeout)
                      IN [n \in 1..Len(expired) |-> expired[n].session_id]]
  /\ UNCHANGED <<model_config, last_op, result, _layers, _categories, calls,
                 sessions, issued, now, socket_vars>>

\* cleanup_expired_sessions, one iteration of `for session_id in
\* expired_sessions: self.delete_session(session_id)`; last_accessed and at
\* record the session's access time and the clock at the removal
CleanupDelete ==
  /\ cleanup.pc = "delete"
  /\ Len(cleanup.expired_sessions) > 0
  /\ LET session_id == Head(cleanup.expired_sessions)
     IN /\ sessions' = delete_session(sessions, session_id)
        /\ result' = [raised |-> FALSE, session_id |-> session_id,
                      removed |-> HasSession(sessions, session_id),
                      last_accessed |-> IF HasSession(sessions, session_id)
                                        THEN SessionOf(sessions, session_id).last_accessed
                                        ELSE 0,
                      at |-> now]
  /\ cleanup' = [cleanup EXCEPT !.expired_sessions = Tail(@)]
  /\ last_op' = "cleanup_delete"
  /\ UNCHANGED <<model_config, _layers, _categories, calls, issued, now, socket_vars>>

\* cleanup_expired_sessions returns; the thread sleeps until its next pass
CleanupDone ==
  /\ cleanup.pc = "delete"
  /\ Len(cleanup.expired_sessions) = 0
  /\ cleanup' = Sleeping
  /\ UNCHANGED <<model_config, last_op, result, _layers, _categories, calls,
                 sessions, issued, now, socket_vars>>

NextSessions ==
  \/ Tick \/ CreateSession \/ GetSession \/ DeleteSession
  \/ CleanupStart \/ CleanupScan \/ CleanupDelete \/ CleanupDone

SpecSessions == InitSessions /\ [][NextSessions]_vars

\* C29: under any interleaving of the cleanup thread with get_session calls,
\* cleanup_expired_sessions removes a session only if its last_accessed is
\* older than session_timeout at the moment it is removed: a session whose
\* access time was refreshed before the removal step is not deleted.
C29_RemovesOnlyExpired ==
  (last_op = "cleanup_delete" /\ result.removed) =>
    result.at - result.last_accessed > session_timeout


---------------------------------------------------------------------------
(* ConnectionManager and websocket_endpoint.  active_connections is the     *)
(* dict of the manager, session id to socket.  websockets[w] is the         *)
(* endpoint coroutine of socket w: "new" before the request, "accepting"    *)
(* inside `await websocket.accept()`, "receiving" inside `await             *)
(* websocket.receive_text()`, "broken" once the peer is gone and the        *)
(* coroutine has not been resumed yet, "closed" after it returned.  order   *)
(* numbers the sockets in the order connect registered them.                *)

\* session ids of the request paths /ws/{session_id}
PathIds == {"s1", "s2"}

\* self.active_connections[session_id] = websocket
connect(conns, websocket, session_id) ==
  [sid \in DOMAIN conns \cup {session_id} |->
     IF sid = session_id THEN websocket ELSE conns[sid]]

\* ConnectionManager.disconnect(session_id)
disconnect(conns, session_id) ==
  [sid \in DOMAIN conns \ {session_id} |-> conns[sid]]

\* the number connect gives the next socket it registers
NextOrder == 1 + Cardinality({w \in Sockets : websockets[w].order > 0})

InitSockets ==
  /\ model_config = [layers |-> <<>>, input_shape |-> PyNone, connections |-> {}]
  /\ last_op = "none"
  /\ result = NoResult
  /\ ImportedRegistry
  /\ ServicesIdle

\* a client opens /ws/{session_id}: websocket_endpoint starts and waits in
\* manager.connect for websocket.accept()
Open ==
  /\ \E w \in Sockets : \E session_id \in PathIds :
       /\ websockets[w].pc = "new"
       /\ websockets' = [websockets EXCEPT ![w] = [pc |-> "accepting",
                                                    session_id |-> session_id, order |-> 0]]
       /\ result' = [raised |-> FALSE, socket |-> w, session_id |-> session_id]
  /\ last_op' = "open"
  /\ UNCHANGED <<model_config, _layers, _categories, calls, session_vars, active_connections>>

\* ConnectionManager.connect after accept() returned
Connect ==
  /\ \E w \in Sockets :
       /\ websockets[w].pc = "accepting"
       /\ active_connections' = connect(active_connections, w, websockets[w].session_id)
       /\ websockets' = [websockets EXCEPT ![w].pc = "receiving", ![w].order = NextOrder]
       /\ result' = [raised |-> FALSE, socket |-> w, session_id |-> websockets[w].session_id]
  /\ last_op' = "connect"
  /\ UNCHANGED <<model_config, _layers, _categories, calls, session_vars>>

\* accept() raised: connect is outside the try block, the endpoint ends
AcceptFailed ==
  /\ \E w \in Sockets :
       /\ websockets[w].pc = "accepting"
       /\ websockets' = [websockets EXCEPT ![w].pc = "closed"]
       /\ result' = [raised |-> TRUE, socket |-> w, session_id |-> websockets[w].session_id]
  /\ last_op' = "accept_failed"
  /\ UNCHANGED <<model_config, _layers, _categories, calls, session_vars, active_connections>>

\* the peer of a socket goes away
PeerGone ==
  /\ \E w \in Sockets :
       /\ websockets[w].pc = "receiving"
       /\ websockets' = [websockets EXCEPT ![w].pc = "broken"]
       /\ result' = [raised |-> FALSE, socket |-> w, session_id |-> websockets[w].session_id]
  /\ last_op' = "peer_gone"
  /\ UNCHANGED <<model_config, _layers, _categories, calls, session_vars, active_connections>>

\* websocket_endpoint: a "ping" message arrives and manager.send_message
\* sends the answer on the socket registered for the session, which raises
\* when that socket is no longer open
Ping ==
  /\ \E w \in Sockets :
       LET session_id == websockets[w].session_id
           registered == session_id \in DOMAIN active_connections
           failed == registered /\ websockets[active_connections[session_id]].pc # "receiving"
       IN /\ websockets[w].pc = "receiving"
          /\ active_connections' =
               IF failed THEN disconnect(active_connections, session_id)
               ELSE active_connections
          /\ result' = [raised |-> FALSE, socket |-> w, session_id |-> session_id,
                        sent |-> registered /\ ~failed]
  /\ last_op' = "ping"
  /\ UNCHANGED <<model_config, _layers, _categories, calls, session_vars, websockets>>

\* websocket_endpoint: receive_text raises WebSocketDisconnect, or the
\* message raises another exception; both handlers call manager.disconnect
Disconnect ==
  /\ \E w \in Sockets :
       /\ websockets[w].pc \in {"receiving", "broken"}
       /\ active_connections' = disconnect(active_connections, websockets[w].session_id)
       /\ websockets' = [websockets EXCEPT ![w].pc = "closed"]
       /\ result' = [raised |-> FALSE, socket |-> w, session_id |-> websockets[w].session_id]
  /\ last_op' = "disconnect"
  /\ UNCHANGED <<model_config, _layers, _categories, calls, session_vars>>

NextSockets == Open \/ Connect \/ AcceptFailed \/ PeerGone \/ Ping \/ Disconnect

SpecSockets == InitSockets /\ [][NextSockets]_vars

\* socket w is the one connect registered last for its session
MostRecent(w) ==
  /\ websockets[w].order > 0
  /\ \A v \in Sockets :
       websockets[v].session_id = websockets[w].session_id =>
         websockets[v].order <= websockets[w].order

\* C30: when two WebSocket connections are opened for the same session id,
\* the disconnect of the older one never removes the newer one's entry: as
\* long as the most recently connected socket of a session has not itself
\* disconnected, active_connections maps the session id to that socket.
C30_NewerConnectionKept ==
  \A w \in Sockets :
    (MostRecent(w) /\ websockets[w].pc = "receiving") =>
      /\ websockets[w].session_id \in DOMAIN active_connections
      /\ active_connections[websockets[w].session_id] = w

=============================================================================
